---- MODULE Spec2Model ----
(***************************************************************************)
(* A model of @workflow/world-cloudflare: the run/event record store on    *)
(* D1 (storage.ts), its cursor pagination, the two-lane queue dispatcher   *)
(* (queue.ts) and the R2 chunked stream store (streamer.ts).               *)
(*                                                                         *)
(* Every handler is an async function.  A handler that issues one SQL      *)
(* statement is one action; a handler with several awaits is one action    *)
(* per statement, run by a process of Procs.  The serialized               *)
(* specifications start a call only when no other call is in flight; the   *)
(* concurrent ones interleave the statements freely.                       *)
(***************************************************************************)
EXTENDS Integers, Sequences, FiniteSets, TLC

(***************************************************************************)
(* Bounds                                                                  *)
(***************************************************************************)
\* Date.now() ranges over 1..MaxClock (milliseconds).
MaxClock == 2
\* The random part of a ULID ranges over 0..RandSpace-1.
RandSpace == 2
\* Rows (runs and events together) the pager specification lets the tables hold.
MaxRows == 4
\* Chunks (of all streams together) the stream specifications let callers write.
MaxChunks == 3
\* Messages the queue specifications let the two lanes receive.
MaxMessages == 3
\* Effects of one message a rejecting processor may leave behind.
MaxEffects == 1
\* Stages of the longest workflow template the demo worker runs.
MaxStages == 2

\* The callers that can have a call in flight.
Procs == {"p1", "p2"}
\* Store instances: every createWorld call builds its own id generators.
Insts == {"w1", "w2"}
WorkflowNames == {"wfA", "wfB"}
StreamNames == {"s1", "s2"}

\* A nullable column or an optional property: NULL (SQL NULL, JS undefined) or
\* Some(v).
NULL == <<>>
Some(v) == <<v>>

VARIABLES
  clock,    \* Date.now()
  runs,     \* table workflow_runs: runId -> row
  gen,      \* per store instance, the state of the runs storage's monotonicFactory
  upd,      \* per process, the runs.update call in flight
  resp,     \* the response of the call the last step completed, or NoResp
  events,   \* table workflow_events: eventId -> row
  egen,     \* per store instance, the state of the events storage's monotonicFactory
  elog,     \* history: the eventIds stored, in the order of their events.create calls
  trav,     \* a caller paging through a list: its parameters, cursor and pages so far
  meta,     \* R2 objects metadata/{name}: name -> {chunkCount, closed}
  chunks,   \* R2 objects streams/{name}/{index}: <<name, index>> -> bytes
  sproc,    \* per process, the streamer call in flight
  wlog,     \* history: per stream, the chunks of the completed writeToStream calls
  qgen,     \* per store instance, the state of createQueue's generateMessageId
  msgs,     \* the messages sent to the two Cloudflare Queues, in send order
  hq,       \* the handleQueueMessage call in flight
  calls,    \* history: the processor calls of the current handleQueueMessage call
  proc,     \* the processor: the idempotency keys it has seen, its effects per message
  poller,   \* the workbench's BackgroundPoller and the interval timers it has set
  cli,      \* the workbench: where its action stands, and the runs of ctx.state
  steps,    \* table workflow_steps: stepId -> row
  demo,     \* the demo worker: per processDemoRun call, where it stands
  hist      \* history: the status writes made to run and step rows so far

runVars == <<clock, runs, gen, upd>>
eventVars == <<events, egen, elog>>
streamVars == <<meta, chunks, sproc, wlog>>
queueVars == <<qgen, msgs, hq, calls, proc>>
workbenchVars == <<poller, cli>>
demoVars == <<steps, demo, hist>>
vars == <<clock, runs, gen, upd, resp, events, egen, elog, trav, meta, chunks, sproc, wlog,
          qgen, msgs, hq, calls, proc, poller, cli, steps, demo, hist>>

(***************************************************************************)
(* Identifiers                                                             *)
(***************************************************************************)
\* A ULID is a 48-bit time followed by an 80-bit random part, in a fixed-width
\* encoding whose string order is the order of (time, random).
UlidValue(time, rand) == time * RandSpace + rand

\* monotonicFactory(): within the same millisecond (or when the clock has not
\* passed the last seed time) the last random part is incremented, otherwise a
\* fresh random part r is drawn.
UlidNext(g, now, r) ==
  IF g.lastTime # 0 /\ now <= g.lastTime
    THEN [lastTime |-> g.lastTime, lastRandom |-> g.lastRandom + 1]
    ELSE [lastTime |-> now, lastRandom |-> r]

UlidOf(g) == UlidValue(g.lastTime, g.lastRandom)

FreshGen == [lastTime |-> 0, lastRandom |-> 0]

(***************************************************************************)
(* Runs                                                                    *)
(***************************************************************************)
Statuses == {"pending", "running", "paused", "completed", "failed", "cancelled"}
Terminal == {"completed", "failed", "cancelled"}

NoResp == [op |-> "none"]
IdleUpdate == [pc |-> "idle"]

\* The requests runs.update is called with: a status, and possibly an output.
StatusRequests == [status : Statuses, output : {NULL}]
UpdateRequests == StatusRequests \cup {[status |-> "completed", output |-> Some("out")]}

Ok(op, id, row) == [op |-> op, id |-> id, code |-> 200, row |-> row]
Err(op, id, code) == [op |-> op, id |-> id, code |-> code, row |-> NULL]

AllIdle == \A p \in Procs : upd[p].pc = "idle"

NewRunStartedMutant(data) ==
  [workflowName |-> data.workflowName, status |-> "running", output |-> NULL,
   startedAt |-> Some(clock), completedAt |-> NULL]

\* The row runs.create inserts.
NewRun(data) ==
  [workflowName |-> data.workflowName, status |-> "pending", output |-> NULL,
   startedAt |-> NULL, completedAt |-> NULL]

\* runs.create: INSERT ... ON CONFLICT DO NOTHING RETURNING, 409 when no row
\* comes back.
CreateRunConflictMutant(w, data, r) ==
  LET g == UlidNext(gen[w], clock, r)
      id == UlidOf(g)
  IN /\ g.lastRandom < RandSpace
     /\ gen' = [gen EXCEPT ![w] = g]
     /\ runs' = IF id \in DOMAIN runs
                  THEN [runs EXCEPT ![id] = NewRun(data)]
                  ELSE [x \in DOMAIN runs \cup {id} |->
                          IF x = id THEN NewRun(data) ELSE runs[x]]
     /\ resp' = Ok("create", id, NewRun(data)) @@ [data |-> data]
     /\ UNCHANGED <<clock, upd, eventVars, trav, streamVars, queueVars, workbenchVars, demoVars>>

CreateRun(w, data, r) ==
  LET g == UlidNext(gen[w], clock, r)
      id == UlidOf(g)
  IN /\ g.lastRandom < RandSpace
     /\ gen' = [gen EXCEPT ![w] = g]
     /\ IF id \in DOMAIN runs
          THEN /\ runs' = runs
               /\ resp' = Err("create", id, 409) @@ [data |-> data]
          ELSE /\ runs' = [x \in DOMAIN runs \cup {id} |->
                             IF x = id THEN NewRun(data) ELSE runs[x]]
               /\ resp' = Ok("create", id, runs'[id]) @@ [data |-> data]
     /\ UNCHANGED <<clock, upd, eventVars, trav, streamVars, queueVars, workbenchVars, demoVars>>

\* runs.get
GetRun(id) ==
  /\ resp' = IF id \in DOMAIN runs THEN Ok("get", id, runs[id]) ELSE Err("get", id, 404)
  /\ UNCHANGED <<clock, runs, gen, upd, eventVars, trav, streamVars, queueVars, workbenchVars, demoVars>>

\* The handlers below are one UPDATE workflow_runs SET ... WHERE id = ?
\* [AND status = ?] RETURNING each: the rows that match are set, and the
\* handler throws 404 when no row is returned.

\* runs.cancel
CancelSet(row) == [row EXCEPT !.status = "cancelled", !.completedAt = Some(clock)]

CancelRunUpsertMutant(id) ==
  /\ runs' = [x \in DOMAIN runs \cup {id} |->
               IF x = id
                 THEN CancelSet(IF x \in DOMAIN runs THEN runs[x]
                                ELSE NewRun([workflowName |-> "wfA"]))
                 ELSE runs[x]]
  /\ resp' = IF id \in DOMAIN runs THEN Ok("cancel", id, runs'[id]) ELSE Err("cancel", id, 404)
  /\ UNCHANGED <<clock, gen, upd, eventVars, trav, streamVars, queueVars, workbenchVars, demoVars>>

CancelRun(id) ==
  /\ runs' = [x \in DOMAIN runs |-> IF x = id THEN CancelSet(runs[x]) ELSE runs[x]]
  /\ resp' = IF id \in DOMAIN runs THEN Ok("cancel", id, runs'[id]) ELSE Err("cancel", id, 404)
  /\ UNCHANGED <<clock, gen, upd, eventVars, trav, streamVars, queueVars, workbenchVars, demoVars>>

\* runs.pause
PauseSet(row) == [row EXCEPT !.status = "paused"]

PauseRunOnlyRunningMutant(id) ==
  /\ runs' = [x \in DOMAIN runs |->
               IF x = id /\ runs[x].status = "running" THEN PauseSet(runs[x]) ELSE runs[x]]
  /\ resp' = IF id \in DOMAIN runs /\ runs[id].status = "running"
               THEN Ok("pause", id, runs'[id]) ELSE Err("pause", id, 404)
  /\ UNCHANGED <<clock, gen, upd, eventVars, trav, streamVars, queueVars, workbenchVars, demoVars>>

PauseRun(id) ==
  /\ runs' = [x \in DOMAIN runs |-> IF x = id THEN PauseSet(runs[x]) ELSE runs[x]]
  /\ resp' = IF id \in DOMAIN runs THEN Ok("pause", id, runs'[id]) ELSE Err("pause", id, 404)
  /\ UNCHANGED <<clock, gen, upd, eventVars, trav, streamVars, queueVars, workbenchVars, demoVars>>

\* runs.resume
ResumeWhereMutant(row) == TRUE

ResumeWhereNotTerminalMutant(row) == row.status \notin Terminal

ResumeWhere(row) == row.status = "paused"

ResumeSet(row) == [row EXCEPT !.status = "running"]

ResumeRun(id) ==
  /\ runs' = [x \in DOMAIN runs |->
               IF x = id /\ ResumeWhere(runs[x]) THEN ResumeSet(runs[x]) ELSE runs[x]]
  /\ resp' = IF id \in DOMAIN runs /\ ResumeWhere(runs[id])
               THEN Ok("resume", id, runs'[id]) ELSE Err("resume", id, 404)
  /\ UNCHANGED <<clock, gen, upd, eventVars, trav, streamVars, queueVars, workbenchVars, demoVars>>

\* runs.update, the fields it derives from the row it has read and from the
\* request, at the time `now`.
UpdateFieldsStartedMutant(currentRun, data, now) ==
  [status |-> data.status,
   output |-> data.output,
   startedAt |-> IF data.status = "running" THEN Some(now) ELSE NULL,
   completedAt |-> IF data.status \in Terminal THEN Some(now) ELSE NULL]

UpdateFields(currentRun, data, now) ==
  [status |-> data.status,
   output |-> data.output,
   startedAt |-> IF data.status = "running" /\ currentRun.startedAt = NULL
                   THEN Some(now) ELSE NULL,
   completedAt |-> IF data.status \in Terminal THEN Some(now) ELSE NULL]

\* .set(updates): a field that is undefined is left out of the statement.
SetFields(row, updates) ==
  [workflowName |-> row.workflowName,
   status |-> updates.status,
   output |-> IF updates.output # NULL THEN updates.output ELSE row.output,
   startedAt |-> IF updates.startedAt # NULL THEN updates.startedAt ELSE row.startedAt,
   completedAt |-> IF updates.completedAt # NULL THEN updates.completedAt
                   ELSE row.completedAt]

\* runs.update, first statement: SELECT the current row; 404 when there is
\* none, else derive the fields to set.
UpdateSelect(p, id, data) ==
  /\ upd[p].pc = "idle"
  /\ IF id \in DOMAIN runs
       THEN /\ upd' = [upd EXCEPT ![p] =
                         [pc |-> "selected", id |-> id, data |-> data,
                          updates |-> UpdateFields(runs[id], data, clock)]]
            /\ resp' = NoResp
       ELSE /\ upd' = upd
            /\ resp' = Err("update", id, 404) @@ [data |-> data]
  /\ UNCHANGED <<clock, runs, gen, eventVars, trav, streamVars, queueVars, workbenchVars, demoVars>>

\* runs.update, second statement: UPDATE ... SET updates WHERE id = ?
UpdateWrite(p) ==
  /\ upd[p].pc = "selected"
  /\ LET id == upd[p].id
     IN /\ runs' = [x \in DOMAIN runs |->
                     IF x = id THEN SetFields(runs[x], upd[p].updates) ELSE runs[x]]
        /\ resp' = IF id \in DOMAIN runs
                     THEN Ok("update", id, runs'[id]) @@
                            [data |-> upd[p].data, set |-> upd[p].updates]
                     ELSE Err("update", id, 404) @@ [data |-> upd[p].data]
  /\ upd' = [upd EXCEPT ![p] = IdleUpdate]
  /\ UNCHANGED <<clock, gen, eventVars, trav, streamVars, queueVars, workbenchVars, demoVars>>

\* Time passes.
Tick ==
  /\ clock < MaxClock
  /\ clock' = clock + 1
  /\ resp' = NoResp
  /\ UNCHANGED <<runs, gen, upd, eventVars, trav, streamVars, queueVars, workbenchVars, demoVars>>

\* The ids a caller can name: those of the table and one that is in no table.
UnknownId == 0
KnownIds == DOMAIN runs \cup {UnknownId}

InitRuns ==
  /\ clock = 1
  /\ runs = <<>>
  /\ gen = [w \in Insts |-> FreshGen]
  /\ upd = [p \in Procs |-> IdleUpdate]
  /\ resp = NoResp

\* Every statement on a run is keyed by its id (WHERE id = ?), so the rows do
\* not interact: the lifecycle specifications create one run, and then only
\* those creates whose id collides with it.
CreateAllowed(w, r) ==
  \/ runs = <<>>
  \/ UlidOf(UlidNext(gen[w], clock, r)) \in DOMAIN runs

\* The single-statement handlers and update's two statements.
RunsStep(serial, insts, names, requests) ==
  \/ \E w \in insts, wf \in names, r \in 0..(RandSpace - 1) :
       /\ serial => AllIdle
       /\ CreateAllowed(w, r)
       /\ CreateRun(w, [workflowName |-> wf], r)
  \/ \E id \in KnownIds : (serial => AllIdle) /\ GetRun(id)
  \/ \E id \in KnownIds : (serial => AllIdle) /\ CancelRun(id)
  \/ \E id \in KnownIds : (serial => AllIdle) /\ PauseRun(id)
  \/ \E id \in KnownIds : (serial => AllIdle) /\ ResumeRun(id)
  \/ \E p \in Procs, id \in KnownIds, data \in requests :
       (serial => AllIdle) /\ UpdateSelect(p, id, data)
  \/ \E p \in Procs : UpdateWrite(p)
  \/ Tick

(***************************************************************************)
(* Events                                                                  *)
(***************************************************************************)
EventTypes == {"workflow_started"}
\* data.correlationId: absent, or the id of a step or hook
CorrelationIds == {NULL, Some("corr1")}

\* The row events.create inserts.
NewEvent(runId, data) ==
  [runId |-> runId, eventType |-> data.eventType, correlationId |-> data.correlationId]

\* events.create: a plain INSERT; a colliding eventId fails the statement.
CreateEventReplaceMutant(w, runId, data, r) ==
  LET g == UlidNext(egen[w], clock, r)
      id == UlidOf(g)
  IN /\ g.lastRandom < RandSpace
     /\ egen' = [egen EXCEPT ![w] = g]
     /\ events' = [x \in DOMAIN events \cup {id} |->
                     IF x = id THEN NewEvent(runId, data)
                               ELSE events[x]]
     /\ elog' = IF id \in DOMAIN events THEN elog ELSE Append(elog, id)
     /\ resp' = Ok("events.create", id, events'[id])
     /\ UNCHANGED <<clock, runs, gen, upd, trav, streamVars, queueVars, workbenchVars, demoVars>>

CreateEvent(w, runId, data, r) ==
  LET g == UlidNext(egen[w], clock, r)
      id == UlidOf(g)
  IN /\ g.lastRandom < RandSpace
     /\ egen' = [egen EXCEPT ![w] = g]
     /\ IF id \in DOMAIN events
          THEN /\ events' = events
               /\ elog' = elog
               /\ resp' = Err("events.create", id, 500)
          ELSE /\ events' = [x \in DOMAIN events \cup {id} |->
                               IF x = id
                                 THEN NewEvent(runId, data)
                                 ELSE events[x]]
               /\ elog' = Append(elog, id)
               /\ resp' = Ok("events.create", id, events'[id])
     /\ UNCHANGED <<clock, runs, gen, upd, trav, streamVars, queueVars, workbenchVars, demoVars>>

InitEvents ==
  /\ events = <<>>
  /\ egen = [w \in Insts |-> FreshGen]
  /\ elog = <<>>

(***************************************************************************)
(* Cursor pager                                                            *)
(***************************************************************************)
DefaultRunsLimit == 20
DefaultEventsLimit == 100

Max(S) == CHOOSE x \in S : \A y \in S : y <= x
Min(S) == CHOOSE x \in S : \A y \in S : x <= y

\* ORDER BY id [DESC]
OrderBy(S, sortOrder) ==
  LET before(x) == {y \in S : IF sortOrder = "desc" THEN y > x ELSE y < x}
  IN [i \in 1..Cardinality(S) |-> CHOOSE x \in S : Cardinality(before(x)) = i - 1]

\* LIMIT n, and Array.prototype.slice(0, n), for n >= 0
Slice(seq, n) == SubSeq(seq, 1, IF n < Len(seq) THEN n ELSE Len(seq))

\* map(obj, fn) is `obj ? fn(obj) : undefined`: the predicate is applied only
\* when obj is given and truthy; `empty` is the falsy value of obj's type
\* (the empty string; 0 stands for it among the ids).
Given(obj, empty) == obj # NULL /\ obj[1] # empty

\* The page built from the limit + 1 rows fetched.
PageOfDropsLookaheadMutant(all, limit) ==
  LET values == Slice(all, limit)
  IN [data |-> values,
      hasMore |-> Len(all) > limit,
      cursor |-> IF Len(all) > 0 THEN Some(all[Len(all)]) ELSE NULL]

PageOfHasMoreAtLimitMutant(all, limit) ==
  LET values == Slice(all, limit)
  IN [data |-> values,
      hasMore |-> Len(all) >= limit,
      cursor |-> IF values # <<>> THEN Some(values[Len(values)]) ELSE NULL]

PageOf(all, limit) ==
  LET values == Slice(all, limit)
  IN [data |-> values,
      hasMore |-> Len(all) > limit,
      cursor |-> IF values # <<>> THEN Some(values[Len(values)]) ELSE NULL]

RunsSelectCursorInclusiveMutant(rows, params) ==
  LET limit == IF params.limit = NULL THEN DefaultRunsLimit ELSE params.limit[1]
      match == {id \in DOMAIN rows :
                  /\ Given(params.cursor, 0) => id <= params.cursor[1]
                  /\ Given(params.workflowName, "") =>
                       rows[id].workflowName = params.workflowName[1]
                  /\ Given(params.status, "") => rows[id].status = params.status[1]}
      all == Slice(OrderBy(match, "desc"), limit + 1)
  IN PageOf(all, limit)

RunsSelectOrMutant(rows, params) ==
  LET limit == IF params.limit = NULL THEN DefaultRunsLimit ELSE params.limit[1]
      match == {id \in DOMAIN rows :
                  \/ Given(params.cursor, 0) /\ id < params.cursor[1]
                  \/ Given(params.workflowName, "") /\
                       rows[id].workflowName = params.workflowName[1]
                  \/ Given(params.status, "") /\ rows[id].status = params.status[1]
                  \/ ~(\/ Given(params.cursor, 0)
                       \/ Given(params.workflowName, "")
                       \/ Given(params.status, ""))}
      all == Slice(OrderBy(match, "desc"), limit + 1)
  IN PageOf(all, limit)

\* runs.list on the table `rows`
RunsSelect(rows, params) ==
  LET limit == IF params.limit = NULL THEN DefaultRunsLimit ELSE params.limit[1]
      match == {id \in DOMAIN rows :
                  /\ Given(params.cursor, 0) => id < params.cursor[1]
                  /\ Given(params.workflowName, "") =>
                       rows[id].workflowName = params.workflowName[1]
                  /\ Given(params.status, "") => rows[id].status = params.status[1]}
      all == Slice(OrderBy(match, "desc"), limit + 1)
  IN PageOf(all, limit)

RunsList(params) == RunsSelect(runs, params)

\* events.list and events.listByCorrelationId on the table `rows`; `by` is
\* the column the call filters on and `key` the value it gives for it.
EventsSelect(rows, by, key, params) ==
  LET limit == IF params.limit = NULL THEN DefaultEventsLimit ELSE params.limit[1]
      sortOrder == IF params.sortOrder = NULL THEN "asc" ELSE params.sortOrder[1]
      match == {id \in DOMAIN rows :
                  /\ rows[id][by] = key
                  /\ Given(params.cursor, 0) =>
                       IF sortOrder = "desc" THEN id < params.cursor[1]
                                             ELSE id > params.cursor[1]}
      all == Slice(OrderBy(match, sortOrder), limit + 1)
  IN PageOf(all, limit)

EventsList(params) == EventsSelect(events, "runId", params.runId, params)

EventsListByCorrelationId(params) ==
  EventsSelect(events, "correlationId", Some(params.correlationId), params)

\* A caller that pages through a list: it calls list with its parameters and
\* no cursor, and then, while hasMore, with the cursor of the last page.
\* `got` is what it has received so far, and `first` (history) the ids that
\* matched when it began.
NoTraversal == [kind |-> "none"]

TravStart(kind, limit, sortOrder, runId) ==
  /\ trav.kind = "none"
  /\ trav' = [kind |-> kind, limit |-> limit, sortOrder |-> sortOrder,
               runId |-> runId, cursor |-> NULL, hasMore |-> TRUE, got |-> <<>>,
               first |-> IF kind = "runs" THEN DOMAIN runs
                         ELSE {e \in DOMAIN events : events[e].runId = runId}]
  /\ resp' = NoResp
  /\ UNCHANGED <<clock, runs, gen, upd, eventVars, streamVars, queueVars, workbenchVars, demoVars>>

TravPage ==
  /\ trav.kind # "none"
  /\ trav.hasMore
  /\ LET page == IF trav.kind = "runs"
                   THEN RunsList([limit |-> trav.limit, cursor |-> trav.cursor,
                                  workflowName |-> NULL, status |-> NULL])
                   ELSE EventsList([limit |-> trav.limit, cursor |-> trav.cursor,
                                    sortOrder |-> trav.sortOrder, runId |-> trav.runId])
     IN /\ trav' = [trav EXCEPT !.cursor = page.cursor, !.hasMore = page.hasMore,
                                 !.got = trav.got \o page.data]
        /\ resp' = [op |-> trav.kind \o ".list", code |-> 200, page |-> page]
  /\ UNCHANGED <<clock, runs, gen, upd, eventVars, streamVars, queueVars, workbenchVars, demoVars>>

\* The caller is done with the list.
TravEnd ==
  /\ trav.kind # "none"
  /\ ~trav.hasMore
  /\ trav' = NoTraversal
  /\ resp' = NoResp
  /\ UNCHANGED <<clock, runs, gen, upd, eventVars, streamVars, queueVars, workbenchVars, demoVars>>

InitPager == trav = NoTraversal

\* One list call; the response carries the call's parameters.
RunsListCall(params) ==
  /\ resp' = [op |-> "runs.list", code |-> 200, params |-> params,
               page |-> RunsList(params)]
  /\ UNCHANGED <<runVars, eventVars, trav, streamVars, queueVars, workbenchVars, demoVars>>

EventsListCall(params) ==
  /\ resp' = [op |-> "events.list", code |-> 200, params |-> params,
               page |-> EventsList(params)]
  /\ UNCHANGED <<runVars, eventVars, trav, streamVars, queueVars, workbenchVars, demoVars>>

EventsListByCorrelationIdCall(params) ==
  /\ resp' = [op |-> "events.listByCorrelationId", code |-> 200, params |-> params,
               page |-> EventsListByCorrelationId(params)]
  /\ UNCHANGED <<runVars, eventVars, trav, streamVars, queueVars, workbenchVars, demoVars>>

(***************************************************************************)
(* Streamer                                                                *)
(***************************************************************************)
\* A chunk is a string (here its code points) or a Uint8Array (its bytes).
ChunkInputs ==
  {[kind |-> "string", val |-> <<233>>], [kind |-> "bytes", val |-> <<97>>]}

\* new TextEncoder().encode(text): UTF-8, for code points below 2048.
RECURSIVE Utf8(_)
Utf8(text) ==
  IF text = <<>> THEN <<>>
  ELSE LET c == Head(text)
       IN (IF c < 128 THEN <<c>> ELSE <<192 + (c \div 64), 128 + (c % 64)>>)
            \o Utf8(Tail(text))

\* typeof chunk === 'string' ? new TextEncoder().encode(chunk) : chunk
ChunkData(chunk) == IF chunk.kind = "string" THEN Utf8(chunk.val) ELSE chunk.val

IdleStream == [pc |-> "idle"]
StreamsIdle == \A p \in Procs : sproc[p].pc = "idle"

\* bucket.put(key, value)
Put(store, key, value) ==
  [k \in DOMAIN store \cup {key} |-> IF k = key THEN value ELSE store[k]]

\* The chunkCount of metadata/{name}, 0 when the object is absent.
ChunkCountOf(name) == IF name \in DOMAIN meta THEN meta[name].chunkCount ELSE 0

WriteGetMetaFirstIndexMutant(p, name, chunk) ==
  /\ sproc[p].pc = "idle"
  /\ sproc' = [sproc EXCEPT ![p] =
                 [pc |-> "putChunk", name |-> name, chunk |-> chunk,
                  chunkIndex |-> 0, data |-> ChunkData(chunk)]]
  /\ resp' = NoResp
  /\ UNCHANGED <<runVars, eventVars, trav, meta, chunks, wlog, queueVars, workbenchVars, demoVars>>

\* writeToStream: bucket.get(metadataKey), and the chunk's index and data.
WriteGetMeta(p, name, chunk) ==
  /\ sproc[p].pc = "idle"
  /\ sproc' = [sproc EXCEPT ![p] =
                 [pc |-> "putChunk", name |-> name, chunk |-> chunk,
                  chunkIndex |-> ChunkCountOf(name), data |-> ChunkData(chunk)]]
  /\ resp' = NoResp
  /\ UNCHANGED <<runVars, eventVars, trav, meta, chunks, wlog, queueVars, workbenchVars, demoVars>>

\* writeToStream: bucket.put(chunkKey, data)
WritePutChunk(p) ==
  /\ sproc[p].pc = "putChunk"
  /\ chunks' = Put(chunks, <<sproc[p].name, sproc[p].chunkIndex>>, sproc[p].data)
  /\ sproc' = [sproc EXCEPT ![p].pc = "putMeta"]
  /\ resp' = NoResp
  /\ UNCHANGED <<runVars, eventVars, trav, meta, wlog, queueVars, workbenchVars, demoVars>>

\* writeToStream: bucket.put(metadataKey, {chunkCount: chunkIndex + 1})
WritePutMetaNoIncrementMutant(p) ==
  /\ sproc[p].pc = "putMeta"
  /\ meta' = Put(meta, sproc[p].name,
                  [chunkCount |-> sproc[p].chunkIndex, closed |-> FALSE])
  /\ wlog' = [wlog EXCEPT ![sproc[p].name] = Append(@, sproc[p].chunk)]
  /\ sproc' = [sproc EXCEPT ![p] = IdleStream]
  /\ resp' = [op |-> "writeToStream", name |-> sproc[p].name, code |-> 200]
  /\ UNCHANGED <<runVars, eventVars, trav, chunks, queueVars, workbenchVars, demoVars>>

WritePutMetaRereadsMutant(p) ==
  /\ sproc[p].pc = "putMeta"
  /\ meta' = Put(meta, sproc[p].name,
                  [chunkCount |-> ChunkCountOf(sproc[p].name) + 1, closed |-> FALSE])
  /\ wlog' = [wlog EXCEPT ![sproc[p].name] = Append(@, sproc[p].chunk)]
  /\ sproc' = [sproc EXCEPT ![p] = IdleStream]
  /\ resp' = [op |-> "writeToStream", name |-> sproc[p].name, code |-> 200]
  /\ UNCHANGED <<runVars, eventVars, trav, chunks, queueVars, workbenchVars, demoVars>>

WritePutMeta(p) ==
  /\ sproc[p].pc = "putMeta"
  /\ meta' = Put(meta, sproc[p].name,
                  [chunkCount |-> sproc[p].chunkIndex + 1, closed |-> FALSE])
  /\ wlog' = [wlog EXCEPT ![sproc[p].name] = Append(@, sproc[p].chunk)]
  /\ sproc' = [sproc EXCEPT ![p] = IdleStream]
  /\ resp' = [op |-> "writeToStream", name |-> sproc[p].name, code |-> 200]
  /\ UNCHANGED <<runVars, eventVars, trav, chunks, queueVars, workbenchVars, demoVars>>

\* closeStream: bucket.get(metadataKey)
CloseGetMeta(p, name) ==
  /\ sproc[p].pc = "idle"
  /\ sproc' = [sproc EXCEPT ![p] =
                 [pc |-> "closePut", name |-> name, chunkCount |-> ChunkCountOf(name)]]
  /\ resp' = NoResp
  /\ UNCHANGED <<runVars, eventVars, trav, meta, chunks, wlog, queueVars, workbenchVars, demoVars>>

ClosePutMetaResetsCountMutant(p) ==
  /\ sproc[p].pc = "closePut"
  /\ meta' = Put(meta, sproc[p].name, [chunkCount |-> 0, closed |-> TRUE])
  /\ sproc' = [sproc EXCEPT ![p] = IdleStream]
  /\ resp' = [op |-> "closeStream", name |-> sproc[p].name, code |-> 200]
  /\ UNCHANGED <<runVars, eventVars, trav, chunks, wlog, queueVars, workbenchVars, demoVars>>

\* closeStream: bucket.put(metadataKey, {chunkCount, closed: true})
ClosePutMeta(p) ==
  /\ sproc[p].pc = "closePut"
  /\ meta' = Put(meta, sproc[p].name,
                  [chunkCount |-> sproc[p].chunkCount, closed |-> TRUE])
  /\ sproc' = [sproc EXCEPT ![p] = IdleStream]
  /\ resp' = [op |-> "closeStream", name |-> sproc[p].name, code |-> 200]
  /\ UNCHANGED <<runVars, eventVars, trav, chunks, wlog, queueVars, workbenchVars, demoVars>>

\* The stream readFromStream returned has ended: controller.close()
ReadDone(p, name, startIndex, out) ==
  /\ sproc' = [sproc EXCEPT ![p] = IdleStream]
  /\ resp' = [op |-> "readFromStream", name |-> name, startIndex |-> startIndex,
               out |-> out, code |-> 200]

\* readFromStream, start(): bucket.get(metadataKey); the stream ends at once
\* when there is no metadata object.
ReadGetMeta(p, name, startIndex) ==
  /\ sproc[p].pc = "idle"
  /\ IF name \in DOMAIN meta
       THEN /\ sproc' = [sproc EXCEPT ![p] =
                           [pc |-> "reading", name |-> name, startIndex |-> startIndex,
                            index |-> startIndex, chunkCount |-> meta[name].chunkCount,
                            out |-> <<>>]]
            /\ resp' = NoResp
       ELSE ReadDone(p, name, startIndex, <<>>)
  /\ UNCHANGED <<runVars, eventVars, trav, meta, chunks, wlog, queueVars, workbenchVars, demoVars>>

ReadChunkIgnoresCountMutant(p) ==
  /\ sproc[p].pc = "reading"
  /\ LET c == sproc[p]
     IN IF <<c.name, c.index>> \in DOMAIN chunks
          THEN /\ sproc' = [sproc EXCEPT ![p].out = Append(@, chunks[<<c.name, c.index>>]),
                                         ![p].index = @ + 1]
               /\ resp' = NoResp
          ELSE ReadDone(p, c.name, c.startIndex, c.out)
  /\ UNCHANGED <<runVars, eventVars, trav, meta, chunks, wlog, queueVars, workbenchVars, demoVars>>

\* readFromStream, one turn of the loop: it ends when index has reached the
\* chunkCount read at the start or the chunk object is missing, else it
\* enqueues the chunk.
ReadChunk(p) ==
  /\ sproc[p].pc = "reading"
  /\ LET c == sproc[p]
     IN IF c.index < c.chunkCount /\ <<c.name, c.index>> \in DOMAIN chunks
          THEN /\ sproc' = [sproc EXCEPT ![p].out = Append(@, chunks[<<c.name, c.index>>]),
                                         ![p].index = @ + 1]
               /\ resp' = NoResp
          ELSE ReadDone(p, c.name, c.startIndex, c.out)
  /\ UNCHANGED <<runVars, eventVars, trav, meta, chunks, wlog, queueVars, workbenchVars, demoVars>>

\* What readFromStream(name, startIndex) yields when it runs alone on the
\* bucket holding the metadata objects m and the chunk objects c.
RECURSIVE ReadFrom(_, _, _, _, _)
ReadFrom(c, name, index, chunkCount, out) ==
  IF index < chunkCount /\ <<name, index>> \in DOMAIN c
    THEN ReadFrom(c, name, index + 1, chunkCount, Append(out, c[<<name, index>>]))
    ELSE out

ReadAlone(m, c, name, startIndex) ==
  IF name \in DOMAIN m THEN ReadFrom(c, name, startIndex, m[name].chunkCount, <<>>)
  ELSE <<>>

\* A chunk object is removed from the bucket by another party (the streamer
\* itself deletes nothing).
ForeignDelete(name, index) ==
  /\ <<name, index>> \in DOMAIN chunks
  /\ chunks' = [k \in DOMAIN chunks \ {<<name, index>>} |-> chunks[k]]
  /\ resp' = NoResp
  /\ UNCHANGED <<runVars, eventVars, trav, meta, sproc, wlog, queueVars, workbenchVars, demoVars>>

InitStreams ==
  /\ meta = <<>>
  /\ chunks = <<>>
  /\ sproc = [p \in Procs |-> IdleStream]
  /\ wlog = [n \in StreamNames |-> <<>>]

\* Writes started so far, completed or in flight.
WritesStarted ==
  Len(wlog["s1"]) + Len(wlog["s2"])
    + Cardinality({p \in Procs : sproc[p].pc \in {"putChunk", "putMeta"}})

StreamStep(serial) ==
  \/ \E p \in Procs, name \in StreamNames, chunk \in ChunkInputs :
       /\ serial => StreamsIdle
       /\ WritesStarted < MaxChunks
       /\ WriteGetMeta(p, name, chunk)
  \/ \E p \in Procs : WritePutChunk(p)
  \/ \E p \in Procs : WritePutMeta(p)
  \/ \E p \in Procs, name \in StreamNames :
       (serial => StreamsIdle) /\ CloseGetMeta(p, name)
  \/ \E p \in Procs : ClosePutMeta(p)
  \/ \E p \in Procs, name \in StreamNames, startIndex \in 0..(MaxChunks + 1) :
       (serial => StreamsIdle) /\ ReadGetMeta(p, name, startIndex)
  \/ \E p \in Procs : ReadChunk(p)

(***************************************************************************)
(* Queue dispatcher                                                        *)
(***************************************************************************)
\* A queue name is its prefix followed by the rest of the name.
WorkflowPrefix == "__wkf_workflow_"
StepPrefix == "__wkf_step_"

\* name.startsWith(prefix)
StartsWith(name, prefix) == name # <<>> /\ Head(name) = prefix

\* parseQueueName: [prefix, name.slice(prefix.length)], or NULL when it throws.
ParseQueueNameLenientMutant(name) ==
  IF StartsWith(name, WorkflowPrefix)
    THEN Some([prefix |-> WorkflowPrefix, queueId |-> Tail(name)])
    ELSE Some([prefix |-> StepPrefix, queueId |-> name])

ParseQueueName(name) ==
  IF StartsWith(name, StepPrefix) THEN Some([prefix |-> StepPrefix, queueId |-> Tail(name)])
  ELSE IF StartsWith(name, WorkflowPrefix)
         THEN Some([prefix |-> WorkflowPrefix, queueId |-> Tail(name)])
         ELSE NULL

LaneOfSwappedMutant(prefix) ==
  IF prefix = WorkflowPrefix THEN "STEP_QUEUE" ELSE "WORKFLOW_QUEUE"

\* prefix === '__wkf_workflow_' ? env.WORKFLOW_QUEUE : env.STEP_QUEUE
LaneOf(prefix) == IF prefix = WorkflowPrefix THEN "WORKFLOW_QUEUE" ELSE "STEP_QUEUE"

ValidPayloadLenientMutant(message) == message.shape \in {"workflow", "step", "malformed"}

\* QueuePayloadSchema.parse: a workflow or a step invocation, else it throws.
ValidPayload(message) == message.shape \in {"workflow", "step"}

\* The envelope queue sends.
EnvelopeKeepsPrefixMutant(queueName, queueId, message, messageId, opts) ==
  [queueName |-> queueName, queueId |-> queueName, message |-> message,
   messageId |-> messageId, idempotencyKey |-> opts.idempotencyKey, attempt |-> 1]

EnvelopeDropsKeyMutant(queueName, queueId, message, messageId, opts) ==
  [queueName |-> queueName, queueId |-> queueId, message |-> message,
   messageId |-> messageId, idempotencyKey |-> NULL, attempt |-> 1]

Envelope(queueName, queueId, message, messageId, opts) ==
  [queueName |-> queueName, queueId |-> queueId, message |-> message,
   messageId |-> messageId, idempotencyKey |-> opts.idempotencyKey, attempt |-> 1]

\* Queue.send: the message joins its lane.  With the message the model keeps,
\* as history, the queue call that sent it and whether the processor has
\* accepted it.
Sent(lane, body, call) ==
  Append(msgs, [lane |-> lane, body |-> body, state |-> "pending",
                call |-> call, forwarded |-> FALSE])

\* queue(queueName, message, opts); sendOk is whether Queue.send succeeds.
QueueSend(w, queueName, message, opts, r, sendOk) ==
  LET parsed == ParseQueueName(queueName)
      g == UlidNext(qgen[w], clock, r)
      messageId == <<"msg_", UlidOf(g)>>
      call == [queueName |-> queueName, message |-> message, opts |-> opts]
  IN /\ g.lastRandom < RandSpace
     /\ IF parsed = NULL
          THEN /\ resp' = [op |-> "queue", code |-> 400, call |-> call]
               /\ UNCHANGED <<qgen, msgs>>
          ELSE /\ qgen' = [qgen EXCEPT ![w] = g]
               /\ IF sendOk
                    THEN /\ msgs' = Sent(LaneOf(parsed[1].prefix),
                                          Some(Envelope(queueName, parsed[1].queueId,
                                                        message, messageId, opts)),
                                          Some(call))
                         /\ resp' = [op |-> "queue", code |-> 200, call |-> call,
                                      messageId |-> messageId]
                    ELSE /\ msgs' = msgs
                         /\ resp' = [op |-> "queue", code |-> 500, call |-> call]
     /\ UNCHANGED <<runVars, eventVars, trav, streamVars, hq, calls, proc, workbenchVars, demoVars>>

\* Another producer sends a message without a body to a lane.
ForeignSend(lane) ==
  /\ msgs' = Sent(lane, NULL, NULL)
  /\ resp' = NoResp
  /\ UNCHANGED <<runVars, eventVars, trav, streamVars, qgen, hq, calls, proc, workbenchVars, demoVars>>

IdleHandler == [pc |-> "idle"]

\* The transport delivers the pending messages `batch` (indices of msgs, in
\* send order) of one lane to handleQueueMessage.
Deliver(batch) ==
  /\ hq.pc = "idle"
  /\ batch # <<>>
  /\ \A j \in DOMAIN batch :
       /\ msgs[batch[j]].state = "pending"
       /\ msgs[batch[j]].lane = msgs[batch[1]].lane
  /\ msgs' = [m \in DOMAIN msgs |->
                IF \E j \in DOMAIN batch : batch[j] = m
                  THEN [msgs[m] EXCEPT !.state = "delivered"] ELSE msgs[m]]
  /\ hq' = [pc |-> "running", batch |-> batch, i |-> 1]
  /\ calls' = calls
  /\ resp' = NoResp
  /\ UNCHANGED <<runVars, eventVars, trav, streamVars, qgen, proc, workbenchVars, demoVars>>

\* What handleQueueMessage passes to embeddedWorld.queue.
ForwardDropsKeyMutant(body) ==
  [queueName |-> body.queueName, message |-> body.message, idempotencyKey |-> NULL]

Forward(body) ==
  [queueName |-> body.queueName, message |-> body.message,
   idempotencyKey |-> body.idempotencyKey]

\* embeddedWorld.queue(queueName, message, {idempotencyKey}) for message m of
\* msgs, on a processor that deduplicates by idempotency key: a call with a
\* key it has seen has no effect.
EffectsOf(m) == IF m \in DOMAIN proc.effects THEN proc.effects[m] ELSE 0

ProcessorApply(m, args) ==
  IF args.idempotencyKey # NULL /\ args.idempotencyKey[1] \in proc.seen
    THEN proc
    ELSE [seen |-> proc.seen \cup (IF args.idempotencyKey = NULL
                                      THEN {} ELSE {args.idempotencyKey[1]}),
          effects |-> Put(proc.effects, m, EffectsOf(m) + 1)]

\* What a call can leave behind: when it resolves, its effect; when it
\* rejects, nothing, or its effect (the failure came after it).
ProcessorOutcomes(reached, accepts, m, args) ==
  IF ~reached THEN {proc}
  ELSE IF accepts THEN {ProcessorApply(m, args)}
  ELSE IF EffectsOf(m) < MaxEffects THEN {proc, ProcessorApply(m, args)}
  ELSE {proc}

\* message.ack() after the try block has run through, message.retry() in the
\* catch block.
SettleSwappedMutant(failed) == IF failed THEN "ack" ELSE "retry"

SettleAcksFailureMutant(failed) == "ack"

Settle(failed) == IF failed THEN "retry" ELSE "ack"

\* A handler whose try block is around the loop: the first failure ends it.
HandleMessageAbortsMutant(accepts) ==
  /\ hq.pc = "running"
  /\ hq.i <= Len(hq.batch)
  /\ LET m == hq.batch[hq.i]
         body == msgs[m].body
         valid == body # NULL /\ ValidPayload(body[1].message)
     IN /\ proc' \in ProcessorOutcomes(valid, accepts, m,
                                        IF valid THEN Forward(body[1]) ELSE NULL)
        /\ calls' = IF valid
                       THEN Append(calls, [msg |-> m, args |-> Forward(body[1]),
                                           accepted |-> accepts,
                                           applied |-> proc' # proc])
                       ELSE calls
        /\ msgs' = [msgs EXCEPT ![m].state = Settle(~(valid /\ accepts)),
                                ![m].forwarded = @ \/ (valid /\ accepts)]
        /\ ~valid => accepts
        /\ IF valid /\ accepts
             THEN hq' = [hq EXCEPT !.i = @ + 1] /\ resp' = NoResp
             ELSE /\ hq' = IdleHandler
                  /\ resp' = [op |-> "handleQueueMessage", code |-> 500,
                               batch |-> hq.batch,
                               settled |-> [j \in DOMAIN hq.batch |->
                                              msgs'[hq.batch[j]].state]]
  /\ UNCHANGED <<runVars, eventVars, trav, streamVars, qgen, workbenchVars, demoVars>>

\* handleQueueMessage, one turn of the loop, on message hq.batch[hq.i]; accepts
\* is whether embeddedWorld.queue resolves (it is called only when the body
\* decodes and the payload is valid).
HandleMessage(accepts) ==
  /\ hq.pc = "running"
  /\ hq.i <= Len(hq.batch)
  /\ LET m == hq.batch[hq.i]
         body == msgs[m].body
         decoded == body # NULL
         valid == decoded /\ ValidPayload(body[1].message)
     IN /\ proc' \in ProcessorOutcomes(valid, accepts, m,
                                        IF valid THEN Forward(body[1]) ELSE NULL)
        /\ calls' = IF valid
                       THEN Append(calls, [msg |-> m, args |-> Forward(body[1]),
                                           accepted |-> accepts,
                                           applied |-> proc' # proc])
                       ELSE calls
        /\ msgs' = [msgs EXCEPT ![m].state = Settle(~(valid /\ accepts)),
                                ![m].forwarded = @ \/ (valid /\ accepts)]
        \* embeddedWorld.queue is not reached: its outcome is not drawn
        /\ ~valid => accepts
  /\ hq' = [hq EXCEPT !.i = @ + 1]
  /\ resp' = NoResp
  /\ UNCHANGED <<runVars, eventVars, trav, streamVars, qgen, workbenchVars, demoVars>>

\* handleQueueMessage returns; the transport removes the acknowledged messages
\* and makes the others pending again.
HandlerReturns ==
  /\ hq.pc = "running"
  /\ hq.i > Len(hq.batch)
  /\ msgs' = [m \in DOMAIN msgs |->
                IF msgs[m].state = "ack" THEN [msgs[m] EXCEPT !.state = "done"]
                ELSE IF msgs[m].state = "retry" THEN [msgs[m] EXCEPT !.state = "pending"]
                ELSE msgs[m]]
  /\ hq' = IdleHandler
  /\ calls' = <<>>
  /\ resp' = [op |-> "handleQueueMessage", code |-> 200, batch |-> hq.batch,
               settled |-> [j \in DOMAIN hq.batch |-> msgs[hq.batch[j]].state]]
  /\ UNCHANGED <<runVars, eventVars, trav, streamVars, qgen, proc, workbenchVars, demoVars>>

InitQueue ==
  /\ qgen = [w \in Insts |-> FreshGen]
  /\ msgs = <<>>
  /\ hq = IdleHandler
  /\ calls = <<>>
  /\ proc = [seen |-> {}, effects |-> <<>>]

\* The calls of queue: a workflow job with an idempotency key, a step job
\* without one, a job whose payload is no valid payload, and a name with
\* neither prefix.
WorkflowJob == [shape |-> "workflow", ref |-> "run1"]
StepJob == [shape |-> "step", ref |-> "step1"]
BadJob == [shape |-> "malformed", ref |-> "x"]

QueueCalls ==
  {[queueName |-> <<WorkflowPrefix, "default">>, message |-> WorkflowJob,
    opts |-> [idempotencyKey |-> Some("key1")]],
   [queueName |-> <<StepPrefix, "add">>, message |-> StepJob,
    opts |-> [idempotencyKey |-> NULL]],
   [queueName |-> <<WorkflowPrefix, "default">>, message |-> BadJob,
    opts |-> [idempotencyKey |-> NULL]],
   [queueName |-> <<"other_", "default">>, message |-> WorkflowJob,
    opts |-> [idempotencyKey |-> NULL]]}

(***************************************************************************)
(* Workbench                                                               *)
(***************************************************************************)
\* client.listRuns({ limit: 20 }) in the poller
PollLimit == 20

\* new BackgroundPoller(); timers are the intervals set and not cleared,
\* handles the number of setInterval calls so far.
NewPoller == [interval |-> NULL, isActive |-> FALSE, timers |-> {}, handles |-> 0]

\* BackgroundPoller.start (called by resume too)
PollerStart(p) ==
  IF p.isActive THEN p
  ELSE [interval |-> Some(p.handles + 1), isActive |-> TRUE,
        timers |-> p.timers \cup {p.handles + 1}, handles |-> p.handles + 1]

\* BackgroundPoller.stop
PollerStop(p) ==
  [(IF p.interval # NULL
      THEN [p EXCEPT !.timers = @ \ {p.interval[1]}, !.interval = NULL]
      ELSE p) EXCEPT !.isActive = FALSE]

\* BackgroundPoller.pause
PollerPause(p) ==
  IF p.interval # NULL
    THEN [p EXCEPT !.timers = @ \ {p.interval[1]}, !.interval = NULL]
    ELSE p

\* BackgroundPoller.resume
PollerResume(p) ==
  IF ~p.isActive \/ p.interval # NULL THEN p ELSE PollerStart(p)

\* startPolling in initialize: the poller is started when the runs could be
\* loaded.
Initialize(canPoll) ==
  /\ cli.pc = "init"
  /\ poller' = IF canPoll THEN PollerStart(NewPoller) ELSE NewPoller
  /\ cli' = [cli EXCEPT !.pc = "menu"]
  /\ resp' = NoResp
  /\ UNCHANGED <<runVars, eventVars, trav, streamVars, queueVars, demoVars>>

\* An interval fires: listRuns, and onUpdate puts the runs in ctx.state.
PollFires ==
  /\ poller.timers # {}
  /\ cli' = [cli EXCEPT !.runs = RunsList([limit |-> Some(PollLimit), cursor |-> NULL,
                                            workflowName |-> NULL,
                                            status |-> NULL]).data]
  /\ resp' = [op |-> "poll", code |-> 200]
  /\ UNCHANGED <<runVars, eventVars, trav, streamVars, queueVars, poller, demoVars>>

\* createRunAction up to ctx.poller.pause()
CreateRunBegin ==
  /\ cli.pc = "menu"
  /\ poller' = PollerPause(poller)
  /\ cli' = [cli EXCEPT !.pc = "dispatch"]
  /\ resp' = [op |-> "poller.pause", code |-> 200]
  /\ UNCHANGED <<runVars, eventVars, trav, streamVars, queueVars, demoVars>>

\* state.runs after upsertRun(state, run)
UpsertRun(list, id) ==
  IF \E i \in DOMAIN list : list[i] = id THEN list ELSE <<id>> \o list

\* The try block of createRunAction: client.createRun, which the worker
\* serves with runs.create (resp is then the reply on its way to the client).
CreateRunServed(r) ==
  /\ cli.pc = "dispatch"
  /\ resp.op # "create"
  /\ CreateRun("w1", [workflowName |-> "wfA"], r)

\* The reply arrives: upsertRun, or the catch block; both go on to finally.
CreateRunReturns ==
  /\ cli.pc = "dispatch"
  /\ cli' = [pc |-> "finally",
              runs |-> IF resp.op = "create" /\ resp.code = 200
                         THEN UpsertRun(cli.runs, resp.id) ELSE cli.runs]
  /\ resp' = [op |-> "client.createRun",
               code |-> IF resp.op = "create" THEN resp.code ELSE 500]
  /\ UNCHANGED <<runVars, eventVars, trav, streamVars, queueVars, poller, demoVars>>

\* The finally block of createRunAction: ctx.poller.resume(...)
CreateRunFinally ==
  /\ cli.pc = "finally"
  /\ poller' = PollerResume(poller)
  /\ cli' = [cli EXCEPT !.pc = "menu"]
  /\ resp' = [op |-> "poller.resume", code |-> 200]
  /\ UNCHANGED <<runVars, eventVars, trav, streamVars, queueVars, demoVars>>

\* The exit action: ctx.poller.stop()
Exit ==
  /\ cli.pc = "menu"
  /\ poller' = PollerStop(poller)
  /\ cli' = [cli EXCEPT !.pc = "exited"]
  /\ resp' = [op |-> "poller.stop", code |-> 200]
  /\ UNCHANGED <<runVars, eventVars, trav, streamVars, queueVars, demoVars>>

InitWorkbench ==
  /\ poller = NewPoller
  /\ cli = [pc |-> "init", runs |-> <<>>]

(***************************************************************************)
(* Demo worker: the run processor and the routes that start it             *)
(***************************************************************************)
\* The processDemoRun calls that ctx.waitUntil starts and can keep running side
\* by side.
DemoProcs == {"d1", "d2"}

\* const world = createWorld(env): the store instance of a processDemoRun call.
WorldOf(d) == IF d = "d1" THEN "w1" ELSE "w2"

\* getTemplate(id).stages.length: the templates have one stage or several.
StagesOf(workflowName) == IF workflowName = "wfA" THEN 1 ELSE MaxStages

Ended == {"idle", "done", "rejected", "crashed"}

\* processDemoRun at its first await.
StartDemo(runId, workflowName) ==
  [pc |-> "runRunning", runId |-> runId, stages |-> StagesOf(workflowName),
   stage |-> 1, stepId |-> NULL]

\* The call processDemoRun awaits at each of its positions.
CallOfEventFirstMutant(pc) ==
  CASE pc = "evStarted" -> [op |-> "runs.update", status |-> "running", output |-> NULL]
    [] pc = "runRunning" -> [op |-> "events.create", eventType |-> "workflow_started", of |-> "run"]
    [] pc = "stepCreate" -> [op |-> "steps.create"]
    [] pc = "stepRunning" -> [op |-> "steps.update", status |-> "running"]
    [] pc = "evStepStarted" -> [op |-> "events.create", eventType |-> "step_started", of |-> "step"]
    [] pc = "sleep" -> [op |-> "sleep"]
    [] pc = "stepFailed" -> [op |-> "steps.update", status |-> "failed"]
    [] pc = "evStepFailed" -> [op |-> "events.create", eventType |-> "step_failed", of |-> "step"]
    [] pc \in {"runFailed", "catchRun"} ->
         [op |-> "runs.update", status |-> "failed", output |-> Some("out")]
    [] pc \in {"evFailed", "catchEvent"} ->
         [op |-> "events.create", eventType |-> "workflow_failed", of |-> "run"]
    [] pc = "stepCompleted" -> [op |-> "steps.update", status |-> "completed"]
    [] pc = "evStepCompleted" ->
         [op |-> "events.create", eventType |-> "step_completed", of |-> "step"]
    [] pc = "runCompleted" ->
         [op |-> "runs.update", status |-> "completed", output |-> Some("out")]
    [] pc = "evCompleted" ->
         [op |-> "events.create", eventType |-> "workflow_completed", of |-> "run"]
    [] OTHER -> [op |-> "none"]

CallOf(pc) ==
  CASE pc = "runRunning" -> [op |-> "runs.update", status |-> "running", output |-> NULL]
    [] pc = "evStarted" -> [op |-> "events.create", eventType |-> "workflow_started", of |-> "run"]
    [] pc = "stepCreate" -> [op |-> "steps.create"]
    [] pc = "stepRunning" -> [op |-> "steps.update", status |-> "running"]
    [] pc = "evStepStarted" -> [op |-> "events.create", eventType |-> "step_started", of |-> "step"]
    [] pc = "sleep" -> [op |-> "sleep"]
    [] pc = "stepFailed" -> [op |-> "steps.update", status |-> "failed"]
    [] pc = "evStepFailed" -> [op |-> "events.create", eventType |-> "step_failed", of |-> "step"]
    [] pc \in {"runFailed", "catchRun"} ->
         [op |-> "runs.update", status |-> "failed", output |-> Some("out")]
    [] pc \in {"evFailed", "catchEvent"} ->
         [op |-> "events.create", eventType |-> "workflow_failed", of |-> "run"]
    [] pc = "stepCompleted" -> [op |-> "steps.update", status |-> "completed"]
    [] pc = "evStepCompleted" ->
         [op |-> "events.create", eventType |-> "step_completed", of |-> "step"]
    [] pc = "runCompleted" ->
         [op |-> "runs.update", status |-> "completed", output |-> Some("out")]
    [] pc = "evCompleted" ->
         [op |-> "events.create", eventType |-> "workflow_completed", of |-> "run"]
    [] OTHER -> [op |-> "none"]

\* Where processDemoRun stands once the call it awaited has returned.
Then(p) ==
  CASE p.pc = "runRunning" -> [p EXCEPT !.pc = "evStarted"]
    [] p.pc = "evStarted" ->
         [p EXCEPT !.pc = IF p.stage <= p.stages THEN "stepCreate" ELSE "runCompleted"]
    [] p.pc = "stepCreate" -> [p EXCEPT !.pc = "stepRunning"]
    [] p.pc = "stepRunning" -> [p EXCEPT !.pc = "evStepStarted"]
    [] p.pc = "evStepStarted" -> [p EXCEPT !.pc = "sleep"]
    [] p.pc = "stepFailed" -> [p EXCEPT !.pc = "evStepFailed"]
    [] p.pc = "evStepFailed" -> [p EXCEPT !.pc = "runFailed"]
    [] p.pc = "runFailed" -> [p EXCEPT !.pc = "evFailed"]
    [] p.pc = "stepCompleted" -> [p EXCEPT !.pc = "evStepCompleted"]
    [] p.pc = "evStepCompleted" ->
         [p EXCEPT !.stage = @ + 1,
                   !.pc = IF p.stage + 1 <= p.stages THEN "stepCreate" ELSE "runCompleted"]
    [] p.pc = "runCompleted" -> [p EXCEPT !.pc = "evCompleted"]
    [] p.pc = "catchRun" -> [p EXCEPT !.pc = "catchEvent"]
    [] OTHER -> [p EXCEPT !.pc = "done"]

\* Where it stands once the call it awaited has thrown: in the catch block
\* when the call is inside the try block, else the promise is rejected.
Thrown(p) ==
  [p EXCEPT !.pc = IF p.pc \in {"runRunning", "evStarted", "catchRun", "catchEvent"}
                     THEN "rejected" ELSE "catchRun"]



\* await world.runs.update(runId, {status, output})
DemoRunsUpdate(d) ==
  /\ demo[d].pc \notin Ended /\ CallOf(demo[d].pc).op = "runs.update"
  /\ LET p == demo[d]
         call == CallOf(p.pc)
         id == p.runId
     IN IF id \in DOMAIN runs
          THEN /\ runs' = [runs EXCEPT ![id] = SetFields(@, UpdateFields(@, call, clock))]
               /\ hist' = [hist EXCEPT !.runs = @ \cup {<<id, call.status>>}]
               /\ demo' = [demo EXCEPT ![d] = Then(p)]
               /\ resp' = [op |-> "processDemoRun", by |-> d, call |-> call, code |-> 200]
          ELSE /\ demo' = [demo EXCEPT ![d] = Thrown(p)]
               /\ resp' = [op |-> "processDemoRun", by |-> d, call |-> call, code |-> 404]
               /\ UNCHANGED <<runs, hist>>
  /\ UNCHANGED <<clock, gen, upd, eventVars, trav, streamVars, queueVars, workbenchVars, steps>>

\* await world.events.create(runId, {eventType, correlationId})
DemoEventsCreate(d, r) ==
  /\ demo[d].pc \notin Ended /\ CallOf(demo[d].pc).op = "events.create"
  /\ LET p == demo[d]
         call == CallOf(p.pc)
         g == UlidNext(egen[WorldOf(d)], clock, r)
         id == UlidOf(g)
         data == [eventType |-> call.eventType,
                  correlationId |-> IF call.of = "run" THEN Some(p.runId) ELSE p.stepId]
     IN /\ g.lastRandom < RandSpace
        /\ egen' = [egen EXCEPT ![WorldOf(d)] = g]
        /\ IF id \in DOMAIN events
             THEN /\ demo' = [demo EXCEPT ![d] = Thrown(p)]
                  /\ resp' = [op |-> "processDemoRun", by |-> d, call |-> call, code |-> 500]
                  /\ UNCHANGED <<events, elog>>
             ELSE /\ events' = [x \in DOMAIN events \cup {id} |->
                                  IF x = id THEN NewEvent(p.runId, data) ELSE events[x]]
                  /\ elog' = Append(elog, id)
                  /\ demo' = [demo EXCEPT ![d] = Then(p)]
                  /\ resp' = [op |-> "processDemoRun", by |-> d, call |-> call, code |-> 200]
  /\ UNCHANGED <<runVars, trav, streamVars, queueVars, workbenchVars, steps, hist>>

\* const stepId = `${stage.id}_${Date.now()}_${Math.floor(Math.random() * 1000)}`
StepIdOf(stage, now, r) == <<stage, now, r>>

\* await world.steps.create(runId, {stepId, ...}): an insert under the
\* uniqueness of the primary key, Conflict on a collision.
DemoStepsCreate(d, r) ==
  /\ demo[d].pc \notin Ended /\ CallOf(demo[d].pc).op = "steps.create"
  /\ LET p == demo[d]
         stepId == StepIdOf(p.stage, clock, r)
     IN IF stepId \in DOMAIN steps
          THEN /\ demo' = [demo EXCEPT ![d] = Thrown(p)]
               /\ resp' = [op |-> "processDemoRun", by |-> d, call |-> CallOf(p.pc), code |-> 409]
               /\ steps' = steps
          ELSE /\ steps' = [x \in DOMAIN steps \cup {stepId} |->
                              IF x = stepId THEN [runId |-> p.runId, status |-> "pending"]
                                            ELSE steps[x]]
               /\ demo' = [demo EXCEPT ![d] = [Then(p) EXCEPT !.stepId = Some(stepId)]]
               /\ resp' = [op |-> "processDemoRun", by |-> d, call |-> CallOf(p.pc), code |-> 200]
  /\ UNCHANGED <<runVars, eventVars, trav, streamVars, queueVars, workbenchVars, hist>>

\* await world.steps.update(runId, stepId, {status, ...}): NotFound when the
\* step does not exist.
DemoStepsUpdate(d) ==
  /\ demo[d].pc \notin Ended /\ CallOf(demo[d].pc).op = "steps.update"
  /\ LET p == demo[d]
         call == CallOf(p.pc)
         stepId == p.stepId[1]
     IN IF stepId \in DOMAIN steps
          THEN /\ steps' = [steps EXCEPT ![stepId].status = call.status]
               /\ hist' = [hist EXCEPT !.steps = @ \cup {<<stepId, call.status>>}]
               /\ demo' = [demo EXCEPT ![d] = Then(p)]
               /\ resp' = [op |-> "processDemoRun", by |-> d, call |-> call, code |-> 200]
          ELSE /\ demo' = [demo EXCEPT ![d] = Thrown(p)]
               /\ resp' = [op |-> "processDemoRun", by |-> d, call |-> call, code |-> 404]
               /\ UNCHANGED <<steps, hist>>
  /\ UNCHANGED <<runVars, eventVars, trav, streamVars, queueVars, workbenchVars>>

\* await sleep(durationMs); const failed = Math.random() < stageFailureRate
DemoSleep(d, failed) ==
  /\ demo[d].pc \notin Ended /\ CallOf(demo[d].pc).op = "sleep"
  /\ demo' = [demo EXCEPT ![d].pc = IF failed THEN "stepFailed" ELSE "stepCompleted"]
  /\ resp' = [op |-> "processDemoRun", by |-> d, call |-> CallOf("sleep"), code |-> 200]
  /\ UNCHANGED <<runVars, eventVars, trav, streamVars, queueVars, workbenchVars, steps, hist>>

\* The worker is stopped while processDemoRun waits at an await.
DemoCrash(d) ==
  /\ demo[d].pc \notin Ended
  /\ demo' = [demo EXCEPT ![d].pc = "crashed"]
  /\ resp' = NoResp
  /\ UNCHANGED <<runVars, eventVars, trav, streamVars, queueVars, workbenchVars, steps, hist>>

\* handleCreateRun after world.runs.create has returned the run:
\* ctx.waitUntil(processDemoRun(env, run.runId, template.id, runInput))
HandleCreateRunSpawns(d) ==
  /\ resp.op = "create"
  /\ resp.code = 200
  /\ demo[d].pc = "idle"
  /\ demo' = [demo EXCEPT ![d] = StartDemo(resp.id, resp.row.workflowName)]
  /\ egen' = [egen EXCEPT ![WorldOf(d)] = FreshGen]
  /\ resp' = [op |-> "handleCreateRun", id |-> resp.id, code |-> 200]
  /\ UNCHANGED <<runVars, events, elog, trav, streamVars, queueVars, workbenchVars, steps, hist>>

\* handleRetryRun: runs.get, runs.update(runId, {status: 'pending', output: []})
\* and ctx.waitUntil(processDemoRun(...))
HandleRetryRun(id, d) ==
  /\ demo[d].pc = "idle"
  /\ IF id \in DOMAIN runs
       THEN /\ runs' = [runs EXCEPT ![id] =
                          SetFields(@, UpdateFields(@, [status |-> "pending",
                                                        output |-> Some("empty")], clock))]
            /\ hist' = [hist EXCEPT !.runs = @ \cup {<<id, "pending">>}]
            /\ demo' = [demo EXCEPT ![d] = StartDemo(id, runs[id].workflowName)]
            /\ egen' = [egen EXCEPT ![WorldOf(d)] = FreshGen]
            /\ resp' = [op |-> "handleRetryRun", id |-> id, code |-> 200]
       ELSE /\ resp' = [op |-> "handleRetryRun", id |-> id, code |-> 404]
            /\ UNCHANGED <<runs, hist, demo, egen>>
  /\ UNCHANGED <<clock, gen, upd, events, elog, trav, streamVars, queueVars, workbenchVars, steps>>

InitDemo ==
  /\ steps = <<>>
  /\ demo = [d \in DemoProcs |-> [pc |-> "idle"]]
  /\ hist = [runs |-> {}, steps |-> {}]

\* The increasing sequences of indices of msgs.
RECURSIVE Batches(_)
Batches(n) ==
  IF n = 0 THEN {<<>>}
  ELSE Batches(n - 1) \cup {Append(b, n) : b \in Batches(n - 1)}

Init ==
  /\ InitRuns /\ InitEvents /\ InitPager /\ InitStreams /\ InitQueue /\ InitWorkbench
  /\ InitDemo

\* The demo worker: one run is created, processed and cancelled, and the
\* worker can be stopped at every await.
NextDemo ==
  \/ \E name \in WorkflowNames, r \in 0..(RandSpace - 1) :
       runs = <<>> /\ CreateRun("w1", [workflowName |-> name], r)
  \/ HandleCreateRunSpawns("d1")
  \/ \E d \in DemoProcs : DemoRunsUpdate(d)
  \/ \E d \in DemoProcs, r \in 0..(RandSpace - 1) :
       Cardinality(DOMAIN events) < MaxRows /\ DemoEventsCreate(d, r)
  \/ \E d \in DemoProcs, r \in 0..(RandSpace - 1) : DemoStepsCreate(d, r)
  \/ \E d \in DemoProcs : DemoStepsUpdate(d)
  \/ \E d \in DemoProcs, failed \in BOOLEAN : DemoSleep(d, failed)
  \/ \E d \in DemoProcs : DemoCrash(d)
  \/ \E id \in DOMAIN runs : CancelRun(id)
  \/ Tick
SpecDemo == Init /\ [][NextDemo]_vars

\* The demo worker with the retry route: a run of the one-stage template is
\* created, processed and cancelled, and retried once its processor has ended.
NextDemoRetry ==
  \/ \E r \in 0..(RandSpace - 1) :
       runs = <<>> /\ CreateRun("w1", [workflowName |-> "wfA"], r)
  \/ HandleCreateRunSpawns("d1")
  \/ \E d \in DemoProcs : DemoRunsUpdate(d)
  \/ \E d \in DemoProcs, r \in 0..(RandSpace - 1) :
       Cardinality(DOMAIN events) < MaxRows /\ DemoEventsCreate(d, r)
  \/ \E d \in DemoProcs, r \in 0..(RandSpace - 1) : DemoStepsCreate(d, r)
  \/ \E d \in DemoProcs : DemoStepsUpdate(d)
  \/ \E d \in DemoProcs, failed \in BOOLEAN : DemoSleep(d, failed)
  \/ \E id \in KnownIds : demo["d1"].pc \in Ended /\ HandleRetryRun(id, "d2")
  \/ \E id \in DOMAIN runs : CancelRun(id)
  \/ Tick
SpecDemoRetry == Init /\ [][NextDemoRetry]_vars

\* Calls issued one after another.
NextRuns == RunsStep(TRUE, Insts, WorkflowNames, UpdateRequests)
SpecRuns == Init /\ [][NextRuns]_vars

\* Calls issued concurrently, on a run created through one store instance and
\* updated by status alone (id collisions and outputs are covered by the
\* serialized specification).
NextRunsConc == RunsStep(FALSE, {"w1"}, {"wfA"}, StatusRequests)
SpecRunsConc == Init /\ [][NextRunsConc]_vars

\* Creates through one store instance, and callers that page through the runs
\* and through the events of one run while no create is running.
Limits == {NULL} \cup {Some(n) : n \in 1..(MaxRows + 1)}
TableRoom == Cardinality(DOMAIN runs) + Cardinality(DOMAIN events) < MaxRows

NextPager ==
  \/ \E wf \in {"wfA"}, r \in {0} :
       /\ trav.kind = "none"
       /\ TableRoom
       /\ CreateRun("w1", [workflowName |-> wf], r)
  \/ \E runId \in KnownIds, ty \in EventTypes, r \in {0} :
       /\ trav.kind = "none"
       /\ TableRoom
       /\ CreateEvent("w1", runId, [eventType |-> ty, correlationId |-> NULL], r)
  \/ \E limit \in Limits : TravStart("runs", limit, NULL, UnknownId)
  \/ \E limit \in Limits, sortOrder \in {NULL, Some("asc"), Some("desc")},
        runId \in KnownIds :
       TravStart("events", limit, sortOrder, runId)
  \/ TravPage
  \/ TravEnd
  \/ Tick

SpecPager == Init /\ [][NextPager]_vars

\* Creates through either store instance while a caller pages through the
\* runs, or through the events of one run, with pages of one or two entities
\* (creates in the table that is not being listed are left out, and the clock
\* advances between traversals).
NextPagerConc ==
  \/ \E w \in Insts, r \in 0..(RandSpace - 1) :
       /\ trav.kind # "events"
       /\ Cardinality(DOMAIN runs) + Cardinality(DOMAIN events) < MaxRows - 1
       /\ CreateRun(w, [workflowName |-> "wfA"], r)
  \/ \E w \in Insts, r \in 0..(RandSpace - 1) :
       /\ trav.kind # "runs"
       /\ Cardinality(DOMAIN runs) = 0
       /\ Cardinality(DOMAIN runs) + Cardinality(DOMAIN events) < MaxRows - 1
       /\ CreateEvent(w, UnknownId,
                      [eventType |-> "workflow_started", correlationId |-> NULL], r)
  \/ \E limit \in {Some(1), Some(2)} : TravStart("runs", limit, NULL, UnknownId)
  \/ \E limit \in {Some(1), Some(2)}, sortOrder \in {NULL, Some("desc")} :
       TravStart("events", limit, sortOrder, UnknownId)
  \/ TravPage
  \/ TravEnd
  \/ trav.kind = "none" /\ Tick

SpecPagerConc == Init /\ [][NextPagerConc]_vars

\* events.create calls issued one after another through either store
\* instance, for the runs a caller names.
EventRunIds == {UnknownId, UlidValue(1, 0)}

NextEvents ==
  \/ \E w \in Insts, runId \in EventRunIds, ty \in EventTypes, r \in 0..(RandSpace - 1) :
       /\ Cardinality(DOMAIN events) < MaxRows
       /\ CreateEvent(w, runId, [eventType |-> ty, correlationId |-> NULL], r)
  \/ Tick

SpecEvents == Init /\ [][NextEvents]_vars

\* Single list calls, with any pagination parameters, on tables filled
\* through one store instance in one millisecond.  A list call changes no
\* table: the calls that follow another list call are those that precede it.
ListOps == {"runs.list", "events.list", "events.listByCorrelationId"}
Pagination(ids) ==
  [limit : {NULL} \cup {Some(n) : n \in 0..(MaxRows - 2)},
   cursor : {NULL} \cup {Some(id) : id \in ids},
   sortOrder : {NULL, Some("asc"), Some("desc")}]

WithFilter(pagination, filter) == pagination @@ filter

ListRoom == Cardinality(DOMAIN runs) + Cardinality(DOMAIN events) < MaxRows - 1

\* A query parameter is absent (NULL) or a string, here a sequence of
\* characters: the digits 0..9, and 10 for a character that is no digit.
LimitParams == {NULL, Some(<<>>), Some(<<10>>), Some(<<0>>), Some(<<1>>), Some(<<2>>),
                Some(<<0, 2>>), Some(<<1, 10>>)}

\* Number.parseInt(text, 10) of such a string: the number its leading digits
\* spell, NULL (NaN) when it has none.
RECURSIVE ParseDigits(_, _)
ParseDigits(text, n) ==
  IF text = <<>> \/ Head(text) \notin 0..9 THEN n
  ELSE ParseDigits(Tail(text), 10 * n + Head(text))

ParseInt(text) ==
  IF text = <<>> \/ Head(text) \notin 0..9 THEN NULL ELSE Some(ParseDigits(text, 0))

\* handleListRuns of the test worker: the limit is 20 when the parameter is
\* absent, empty or no number, else the number parsed; `workflowName || undefined`.
HandleListRuns(workflowName, limitParam) ==
  LET parsedLimit == IF limitParam # NULL /\ limitParam[1] # <<>>
                       THEN ParseInt(limitParam[1]) ELSE Some(20)
      limit == IF parsedLimit = NULL THEN 20 ELSE parsedLimit[1]
      params == [limit |-> Some(limit), cursor |-> NULL, sortOrder |-> NULL,
                 workflowName |-> IF Given(workflowName, "") THEN workflowName ELSE NULL,
                 status |-> NULL]
  IN /\ resp' = [op |-> "handleListRuns", code |-> 200, params |-> params,
                  page |-> RunsList(params)]
     /\ UNCHANGED <<runVars, eventVars, trav, streamVars, queueVars, workbenchVars, demoVars>>

NextLists ==
  \/ \E wf \in WorkflowNames :
       ListRoom /\ CreateRun("w1", [workflowName |-> wf], 0)
  \/ \E id \in DOMAIN runs : runs[id].status = "pending" /\ CancelRun(id)
  \/ \E runId \in EventRunIds, ty \in EventTypes, c \in CorrelationIds :
       ListRoom /\ CreateEvent("w1", runId, [eventType |-> ty, correlationId |-> c], 0)
  \/ \E pg \in Pagination(DOMAIN runs), wf \in {NULL, Some("wfA"), Some("")},
        st \in {NULL, Some("pending")} :
       /\ resp.op \notin ListOps
       /\ RunsListCall(WithFilter(pg, [workflowName |-> wf, status |-> st]))
  \/ \E pg \in Pagination(DOMAIN events), runId \in EventRunIds :
       /\ resp.op \notin ListOps
       /\ EventsListCall(WithFilter(pg, [runId |-> runId]))
  \/ \E pg \in Pagination(DOMAIN events) :
       /\ resp.op \notin ListOps
       /\ EventsListByCorrelationIdCall(WithFilter(pg, [correlationId |-> "corr1"]))
  \/ \E wf \in {NULL, Some("wfA"), Some("")}, limitParam \in LimitParams :
       /\ resp.op \notin ListOps
       /\ HandleListRuns(wf, limitParam)

SpecLists == Init /\ [][NextLists]_vars

\* The whole store, its calls issued one after another: events and runs
\* through either instance, the listing of events, the dispatcher and the
\* streamer, on tables, lanes and streams that hold StoreRoom objects together.
StoreRoom ==
  Cardinality(DOMAIN runs) + Cardinality(DOMAIN events) + Len(msgs) + WritesStarted
    < MaxRows
StoreIdle == AllIdle /\ StreamsIdle /\ hq.pc = "idle" /\ trav.kind = "none"

NextStore ==
  \/ \E w \in Insts, runId \in EventRunIds, ty \in EventTypes :
       StoreIdle /\ StoreRoom
         /\ CreateEvent(w, runId, [eventType |-> ty, correlationId |-> NULL], 0)
  \/ StoreIdle /\ StoreRoom /\ CreateAllowed("w1", 0)
       /\ CreateRun("w1", [workflowName |-> "wfA"], 0)
  \/ \E id \in DOMAIN runs : StoreIdle /\ CancelRun(id)
  \/ \E id \in DOMAIN runs : StoreIdle /\ PauseRun(id)
  \/ \E id \in DOMAIN runs : StoreIdle /\ ResumeRun(id)
  \/ \E id \in DOMAIN runs, data \in {d \in StatusRequests : d.status = "completed"} :
       StoreIdle /\ UpdateSelect("p1", id, data)
  \/ UpdateWrite("p1")
  \/ \E runId \in EventRunIds : StoreIdle /\ TravStart("events", NULL, NULL, runId)
  \/ TravPage
  \/ TravEnd
  \/ StoreIdle /\ StoreRoom
       /\ QueueSend("w1", <<WorkflowPrefix, "default">>, WorkflowJob,
                     [idempotencyKey |-> Some("key1")], 0, TRUE)
  \/ \E batch \in Batches(Len(msgs)) : StoreIdle /\ Deliver(batch)
  \/ \E accepts \in BOOLEAN : HandleMessage(accepts)
  \/ HandlerReturns
  \/ StoreIdle /\ StoreRoom /\ WriteGetMeta("p1", "s1", [kind |-> "bytes", val |-> <<97>>])
  \/ WritePutChunk("p1")
  \/ WritePutMeta("p1")
  \/ StoreIdle /\ CloseGetMeta("p1", "s1")
  \/ ClosePutMeta("p1")
  \/ StoreIdle /\ ReadGetMeta("p1", "s1", 0)
  \/ ReadChunk("p1")

SpecStore == Init /\ [][NextStore]_vars

\* The workbench: it starts, creates runs and exits, while its intervals fire.
NextWorkbench ==
  \/ \E canPoll \in BOOLEAN : Initialize(canPoll)
  \/ PollFires
  \/ CreateRunBegin
  \/ \E r \in 0..(RandSpace - 1) :
       /\ Cardinality(DOMAIN runs) < MaxRows
       /\ CreateRunServed(r)
  \/ CreateRunReturns
  \/ CreateRunFinally
  \/ Exit
  \/ ~(cli.pc = "dispatch" /\ resp.op = "create") /\ Tick

SpecWorkbench == Init /\ [][NextWorkbench]_vars

\* Streamer calls issued one after another.
NextStream == StreamStep(TRUE)
SpecStream == Init /\ [][NextStream]_vars

\* Streamer calls issued concurrently on one stream, read from its start.
NextStreamConc ==
  \/ \E p \in Procs, chunk \in ChunkInputs :
       /\ sproc[p].pc = "idle"
       /\ WritesStarted < MaxChunks
       /\ WriteGetMeta(p, "s1", chunk)
  \/ \E p \in Procs : WritePutChunk(p)
  \/ \E p \in Procs : WritePutMeta(p)
  \/ \E p \in Procs : sproc[p].pc = "idle" /\ CloseGetMeta(p, "s1")
  \/ \E p \in Procs : ClosePutMeta(p)
  \/ \E p \in Procs : sproc[p].pc = "idle" /\ ReadGetMeta(p, "s1", 0)
  \/ \E p \in Procs : ReadChunk(p)

SpecStreamConc == Init /\ [][NextStreamConc]_vars

\* One writer, whose writes follow one another, and beside it a caller that
\* closes the stream.
NextStreamCloser ==
  \/ \E name \in StreamNames, chunk \in ChunkInputs :
       /\ sproc["p1"].pc = "idle"
       /\ WritesStarted < MaxChunks
       /\ WriteGetMeta("p1", name, chunk)
  \/ WritePutChunk("p1")
  \/ WritePutMeta("p1")
  \/ \E name \in StreamNames : sproc["p2"].pc = "idle" /\ CloseGetMeta("p2", name)
  \/ ClosePutMeta("p2")

SpecStreamCloser == Init /\ [][NextStreamCloser]_vars

\* The writes and closes of each stream issued one after another, beside
\* reads of the stream and calls on the other stream.
Changing(name) ==
  \E p \in Procs : sproc[p].pc \in {"putChunk", "putMeta", "closePut"}
                     /\ sproc[p].name = name

NextStreamSerial ==
  \/ \E p \in Procs, name \in StreamNames :
       /\ sproc[p].pc = "idle"
       /\ ~Changing(name)
       /\ WritesStarted < MaxChunks
       /\ WriteGetMeta(p, name, [kind |-> "bytes", val |-> <<97 + WritesStarted>>])
  \/ \E p \in Procs : WritePutChunk(p)
  \/ \E p \in Procs : WritePutMeta(p)
  \/ \E p \in Procs, name \in StreamNames :
       sproc[p].pc = "idle" /\ ~Changing(name) /\ CloseGetMeta(p, name)
  \/ \E p \in Procs : ClosePutMeta(p)
  \/ \E p \in Procs, name \in StreamNames :
       sproc[p].pc = "idle" /\ ReadGetMeta(p, name, 0)
  \/ \E p \in Procs : ReadChunk(p)

SpecStreamSerial == Init /\ [][NextStreamSerial]_vars

\* Reads from any start index while writes and closes of the stream are in
\* flight and chunk objects go missing; the reader's loop is not held up for
\* ever.
NextStreamRead ==
  \/ \E p \in Procs :
       /\ sproc[p].pc = "idle"
       /\ WritesStarted < MaxChunks
       /\ WriteGetMeta(p, "s1", [kind |-> "bytes", val |-> <<97 + WritesStarted>>])
  \/ \E p \in Procs : WritePutChunk(p)
  \/ \E p \in Procs : WritePutMeta(p)
  \/ sproc["p1"].pc = "idle" /\ ~("s1" \in DOMAIN meta /\ meta["s1"].closed)
       /\ CloseGetMeta("p1", "s1")
  \/ ClosePutMeta("p1")
  \/ \E startIndex \in 0..(MaxChunks + 1) :
       sproc["p2"].pc = "idle" /\ ReadGetMeta("p2", "s1", startIndex)
  \/ ReadChunk("p2")
  \/ \E index \in 0..(MaxChunks - 1) : ForeignDelete("s1", index)

FairRead == WF_vars(ReadChunk("p2"))

SpecStreamRead == Init /\ [][NextStreamRead]_vars /\ FairRead

\* The dispatcher: producers, the transport and the consumer.
QueueStep(room) ==
  \/ \E c \in QueueCalls, sendOk \in BOOLEAN :
       /\ Len(msgs) < room
       /\ QueueSend("w1", c.queueName, c.message, c.opts, 0, sendOk)
  \/ \E lane \in {"WORKFLOW_QUEUE", "STEP_QUEUE"} :
       /\ Len(msgs) < room
       /\ ForeignSend(lane)
  \/ \E batch \in Batches(Len(msgs)) : Deliver(batch)
  \/ \E accepts \in BOOLEAN : HandleMessage(accepts)
  \/ HandlerReturns

NextQueue == QueueStep(MaxMessages)

SpecQueue == Init /\ [][NextQueue]_vars

\* The transport presents the pending messages of a lane again and again, the
\* consumer runs, and the processor does not refuse a message for ever.
DeliverAll(lane) ==
  \E batch \in Batches(Len(msgs)) \ {<<>>} :
    /\ \A m \in DOMAIN msgs :
         (msgs[m].state = "pending" /\ msgs[m].lane = lane)
           => \E j \in DOMAIN batch : batch[j] = m
    /\ msgs[batch[1]].lane = lane
    /\ Deliver(batch)

Accepts(m) ==
  /\ hq.pc = "running"
  /\ hq.i <= Len(hq.batch)
  /\ hq.batch[hq.i] = m
  /\ msgs[m].body # NULL
  /\ ValidPayload(msgs[m].body[1].message)
  /\ HandleMessage(TRUE)

\* The fair behaviours are explored with one message fewer.
FairMessages == MaxMessages - 1

NextQueueFair == QueueStep(FairMessages)

FairQueue ==
  /\ \A lane \in {"WORKFLOW_QUEUE", "STEP_QUEUE"} : SF_vars(DeliverAll(lane))
  /\ \A m \in 1..FairMessages : SF_vars(Accepts(m))
  /\ WF_vars(\E accepts \in BOOLEAN : HandleMessage(accepts))
  /\ WF_vars(HandlerReturns)

SpecQueueFair == Init /\ [][NextQueueFair]_vars /\ FairQueue

(***************************************************************************)
(* Claims                                                                  *)
(***************************************************************************)

\* C2: a runs.create whose generated runId is already in the table fails with
\* 409 and changes no row; so of two creates on one id only the first succeeds.
C2_CreateConflict ==
  [][(resp'.op = "create" /\ resp'.id \in DOMAIN runs)
       => (resp'.code = 409 /\ runs' = runs)]_vars

\* A create that collided with a row created with another workflow name.
C2_Witness ==
  /\ resp.op = "create"
  /\ resp.code = 409
  /\ resp.id \in DOMAIN runs
  /\ runs[resp.id].workflowName # resp.data.workflowName

\* C3: with calls issued one after another, update(id, {status: "running"}) on
\* a run whose startedAt is unset sets it, and on a run whose startedAt is set
\* leaves it as it is.
C3_StartedAtFirstUpdate ==
  [][(resp'.op = "update" /\ resp'.code = 200 /\ resp'.data.status = "running")
       => IF runs[resp'.id].startedAt = NULL
            THEN runs'[resp'.id].startedAt # NULL
            ELSE runs'[resp'.id].startedAt = runs[resp'.id].startedAt]_vars

\* A later update to running, at a later time, that kept the first startedAt.
C3_Witness ==
  /\ resp.op = "update"
  /\ resp.code = 200
  /\ resp.data.status = "running"
  /\ resp.set.startedAt = NULL
  /\ resp.row.startedAt # NULL
  /\ resp.row.startedAt[1] < clock

\* C4: resume on an existing run that is not paused fails with 404 and changes
\* no row; resume on a paused run sets only its status, to running, and returns
\* the updated row.
C4_ResumeOnlyPaused ==
  [][(resp'.op = "resume" /\ resp'.id \in DOMAIN runs)
       => IF runs[resp'.id].status = "paused"
            THEN /\ resp'.code = 200
                 /\ runs' = [runs EXCEPT ![resp'.id].status = "running"]
                 /\ resp'.row = runs'[resp'.id]
            ELSE /\ resp'.code = 404
                 /\ runs' = runs]_vars

\* A resume refused on an existing run that had completed.
C4_Witness ==
  /\ resp.op = "resume"
  /\ resp.code = 404
  /\ resp.id \in DOMAIN runs
  /\ runs[resp.id].status = "completed"
  /\ runs[resp.id].completedAt # NULL

\* C9: under every interleaving of update, pause, resume and cancel on one
\* run, startedAt is written at most once (once set it never changes), and it
\* is written at the run's first transition into running (a step that moves a
\* run with no startedAt into running sets it).
C9_StartedAtOnce ==
  [][\A id \in DOMAIN runs :
       /\ runs[id].startedAt # NULL => runs'[id].startedAt = runs[id].startedAt
       /\ (runs[id].startedAt = NULL /\ runs[id].status # "running"
             /\ runs'[id].status = "running") => runs'[id].startedAt # NULL]_vars

\* C10: completedAt is written at the run's first transition into completed,
\* failed or cancelled, and no later cancel or update changes it.
C10_CompletedAtOnce ==
  [][\A id \in DOMAIN runs :
       /\ runs[id].completedAt # NULL => runs'[id].completedAt = runs[id].completedAt
       /\ (runs[id].status \notin Terminal /\ runs'[id].status \in Terminal)
             => runs'[id].completedAt # NULL]_vars

\* C1: a caller that pages through runs.list, or through events.list of one
\* run in either order, with any limit >= 1, passing each page's cursor to the
\* next call until hasMore is false, has received every matching row exactly
\* once.
IsEachOnce(seq, S) ==
  /\ {seq[i] : i \in DOMAIN seq} = S
  /\ Len(seq) = Cardinality(S)

C1_PagingReturnsEachOnce ==
  (trav.kind # "none" /\ ~trav.hasMore)
    => IsEachOnce(trav.got,
                  IF trav.kind = "runs" THEN DOMAIN runs
                  ELSE {e \in DOMAIN events : events[e].runId = trav.runId})

\* The two events of one run received in descending order, one per page, with
\* an event of another run in the table.
C1_Witness ==
  /\ trav.kind = "events"
  /\ ~trav.hasMore
  /\ trav.limit = Some(1)
  /\ trav.sortOrder = Some("desc")
  /\ Len(trav.got) = 2
  /\ Cardinality(DOMAIN events) = 3

\* C5: with the streamer calls issued one after another, a readFromStream(name,
\* k) of a stream on which n writes have completed yields the data of the
\* chunks k..n-1 in write order and ends, for every k (nothing when k >= n);
\* in particular after the stream was closed, and for a stream never written.
ChunksFrom(log, k) ==
  IF k >= Len(log) THEN <<>>
  ELSE [i \in 1..(Len(log) - k) |-> ChunkData(log[k + i])]

C5_ReadYieldsWrittenChunks ==
  resp.op = "readFromStream" => resp.out = ChunksFrom(wlog[resp.name], resp.startIndex)

\* A read from index 1 of a closed stream of three chunks.
C5_Witness ==
  /\ resp.op = "readFromStream"
  /\ resp.startIndex = 1
  /\ Len(wlog[resp.name]) = 3
  /\ wlog[resp.name][2] # wlog[resp.name][3]
  /\ meta[resp.name].closed
  /\ Len(resp.out) = 2

\* C6: handleQueueMessage settles each message of a batch on its own: a
\* message that has no body, whose payload is invalid or that the processor
\* refused is marked for retry, every message the processor accepted is
\* acknowledged, and the messages not yet reached are untouched.
AcceptedNow(m) == \E k \in DOMAIN calls : calls[k].msg = m /\ calls[k].accepted

C6_PerMessageIsolation ==
  hq.pc = "running" =>
    \A j \in DOMAIN hq.batch :
      LET m == hq.batch[j]
      IN msgs[m].state = IF j >= hq.i THEN "delivered"
                         ELSE IF AcceptedNow(m) THEN "ack" ELSE "retry"

\* A batch of three whose second message has no body: it is marked for retry
\* and the first and the third are acknowledged.
C6_Witness ==
  /\ hq.pc = "running"
  /\ Len(hq.batch) = 3
  /\ hq.i = 4
  /\ msgs[hq.batch[2]].body = NULL
  /\ msgs[hq.batch[1]].state = "ack"
  /\ msgs[hq.batch[2]].state = "retry"
  /\ msgs[hq.batch[3]].state = "ack"

\* C7: queue returns the messageId of the envelope it has sent, and when that
\* envelope is delivered handleQueueMessage calls the processor once, with the
\* queueName, the payload and the idempotencyKey queue was called with.
CallsFor(m) == {k \in DOMAIN calls : calls[k].msg = m}

C7_RoundTrip ==
  /\ (resp.op = "queue" /\ resp.code = 200) =>
       /\ resp.messageId # <<>>
       /\ msgs[Len(msgs)].body[1].messageId = resp.messageId
  /\ hq.pc = "running" =>
       \A j \in 1..(hq.i - 1) :
         LET m == hq.batch[j]
         IN (msgs[m].call # NULL /\ ValidPayload(msgs[m].call[1].message)) =>
              /\ Cardinality(CallsFor(m)) = 1
              /\ \A k \in CallsFor(m) :
                   /\ calls[k].args.queueName = msgs[m].call[1].queueName
                   /\ calls[k].args.message = msgs[m].call[1].message
                   /\ calls[k].args.idempotencyKey = msgs[m].call[1].opts.idempotencyKey

\* The processor has accepted the workflow job queued with key1.
C7_Witness ==
  /\ hq.pc = "running"
  /\ \E k \in DOMAIN calls :
       /\ calls[k].accepted
       /\ calls[k].args.idempotencyKey = Some("key1")
       /\ calls[k].args.message = WorkflowJob
       /\ msgs[calls[k].msg].state = "ack"

\* C8: when the transport keeps presenting the messages that are pending and
\* the processor does not refuse a message for ever, every message queue has
\* sent with a valid payload is in the end accepted by the processor and
\* acknowledged.
PublishedValid(m) ==
  /\ m \in DOMAIN msgs
  /\ msgs[m].call # NULL
  /\ ValidPayload(msgs[m].call[1].message)

ForwardedAndAcked(m) ==
  /\ m \in DOMAIN msgs
  /\ msgs[m].forwarded
  /\ msgs[m].state = "done"

C8_AtLeastOnce ==
  \A m \in 1..FairMessages : PublishedValid(m) ~> ForwardedAndAcked(m)

\* A message queue has sent is accepted and acknowledged while a message
\* without a body, sent by another producer, is pending again.
C8_Witness ==
  \E m \in DOMAIN msgs :
    /\ PublishedValid(m)
    /\ msgs[m].forwarded
    /\ msgs[m].state = "done"
    /\ \E n \in DOMAIN msgs : n # m /\ msgs[n].state = "pending" /\ msgs[n].body = NULL

\* C11: the events of one run, sorted by eventId, are in the order in which
\* their events.create calls were performed: of two stored events of the same
\* run, the one created first has the smaller eventId.
C11_EventIdOrderIsCreationOrder ==
  \A i, j \in DOMAIN elog :
    (i < j /\ events[elog[i]].runId = events[elog[j]].runId) => elog[i] < elog[j]

\* C12: the event log is append-only: no step of the store changes or removes
\* a stored event.
C12_EventsAppendOnly ==
  [][\A id \in DOMAIN events : id \in DOMAIN events' /\ events'[id] = events[id]]_vars

\* An events.create whose id is already stored (two instances drew the same
\* id) for another run has failed, and a run has been cancelled, with the
\* stored event as it was.
C12_Witness ==
  /\ resp.op = "events.create"
  /\ resp.code = 500
  /\ resp.id \in DOMAIN events
  /\ events[resp.id].runId = UnknownId
  /\ \E id \in DOMAIN runs : runs[id].status = "cancelled"

\* C13: whenever no streamer call is in flight, the chunk objects stored for
\* a stream have exactly the indices 0..chunkCount-1, and chunkCount is the
\* number of chunks written to the stream.
ChunkIndices(name) == {k[2] : k \in {x \in DOMAIN chunks : x[1] = name}}

C13_ChunkCountIsChunksWritten ==
  StreamsIdle =>
    \A name \in StreamNames :
      /\ ChunkIndices(name) = 0..(ChunkCountOf(name) - 1)
      /\ ChunkCountOf(name) = Len(wlog[name])

C15_OnePublishPerCall ==
  [][resp'.op = "queue" =>
       /\ resp'.code = 200 =>
            /\ Len(msgs') = Len(msgs) + 1
            /\ SubSeq(msgs', 1, Len(msgs)) = msgs
            /\ LET sent == msgs'[Len(msgs')]
                   b == sent.body[1]
                   c == resp'.call
               IN /\ sent.state = "pending"
                  /\ sent.lane = IF Head(c.queueName) = WorkflowPrefix
                                    THEN "WORKFLOW_QUEUE" ELSE "STEP_QUEUE"
                  /\ b.attempt = 1
                  /\ b.queueName = c.queueName
                  /\ b.queueId = Tail(c.queueName)
                  /\ b.message = c.message
                  /\ b.idempotencyKey = c.opts.idempotencyKey
                  /\ b.messageId = resp'.messageId
       /\ resp'.code # 200 =>
            /\ msgs' = msgs
            /\ "messageId" \notin DOMAIN resp']_vars

\* The step job queued on __wkf_step_add is the last message of the step lane,
\* with queueId add and no idempotencyKey, after a send that failed.
C15_Witness ==
  /\ resp.op = "queue"
  /\ resp.code = 200
  /\ resp.call.message = StepJob
  /\ msgs[Len(msgs)].lane = "STEP_QUEUE"
  /\ msgs[Len(msgs)].body[1].queueId = <<"add">>
  /\ msgs[Len(msgs)].body[1].messageId = resp.messageId
  /\ Len(msgs) = 1
  /\ qgen["w1"].lastRandom > 0

KeyedWith(key) ==
  {m \in DOMAIN msgs : msgs[m].call # NULL
                         /\ msgs[m].call[1].opts.idempotencyKey = Some(key)}

C17_KeyedEffectOnce ==
  /\ \A key \in {"key1"} :
       /\ \A m \in KeyedWith(key) : EffectsOf(m) <= 1
       /\ \A m, n \in KeyedWith(key) : m # n => EffectsOf(m) + EffectsOf(n) <= 1
       /\ (\E m \in KeyedWith(key) : msgs[m].forwarded)
            => \E m \in KeyedWith(key) : EffectsOf(m) = 1
  /\ \A k \in DOMAIN calls :
       msgs[calls[k].msg].call # NULL =>
         /\ calls[k].args.idempotencyKey = msgs[calls[k].msg].call[1].opts.idempotencyKey
         /\ calls[k].args.message = msgs[calls[k].msg].call[1].message

\* The message queued with key1 is delivered again after a forward that failed
\* once its effect was applied: the processor accepts it and applies nothing.
C17_Witness ==
  \E k \in DOMAIN calls :
    /\ calls[k].accepted
    /\ ~calls[k].applied
    /\ calls[k].args.idempotencyKey = Some("key1")
    /\ EffectsOf(calls[k].msg) = 1
    /\ msgs[calls[k].msg].state = "ack"

\* C18: createRunAction pauses the poller and resumes it when it is done: for
\* a poller that was started, after pause no interval is set, and after the
\* resume that follows an interval is set again.
C18_PollerResumes ==
  [][/\ resp'.op = "poller.pause" => poller'.timers = {}
     /\ (resp'.op = "poller.resume" /\ poller.isActive)
          => (poller'.interval # NULL /\ poller'.timers # {})]_vars

\* C19: a page of runs.list, events.list or events.listByCorrelationId has at
\* most limit entities (20 for runs and 100 for events when no limit is
\* given); hasMore is true exactly when a matching row lies beyond the page in
\* the direction of the listing; cursor is the id of the last entity of the
\* page, or null when the page is empty; with no matching row the page is
\* {data: [], cursor: null, hasMore: false}.  (runs.list is taken in its own
\* direction, newest first; what it does with sortOrder is C20.)
\* A text filter counts as supplied when it is given and not the empty string.
Supplied(filter) == filter # NULL /\ filter[1] # ""

DirectionOf(op, params) ==
  IF op = "runs.list" THEN "desc"
  ELSE IF params.sortOrder = NULL THEN "asc" ELSE params.sortOrder[1]

Beyond(x, y, dir) == IF dir = "desc" THEN x < y ELSE x > y

\* The rows the call asks for: those its filter matches, beyond its cursor.
Matching(op, params) ==
  LET table == IF op = "runs.list" THEN runs ELSE events
      wanted(id) ==
        IF op = "runs.list"
          THEN /\ Supplied(params.workflowName) =>
                    runs[id].workflowName = params.workflowName[1]
               /\ Supplied(params.status) => runs[id].status = params.status[1]
          ELSE IF op = "events.list" THEN events[id].runId = params.runId
          ELSE events[id].correlationId = Some(params.correlationId)
  IN {id \in DOMAIN table :
        /\ wanted(id)
        /\ params.cursor # NULL => Beyond(id, params.cursor[1], DirectionOf(op, params))}

LimitOf(op, params) ==
  IF params.limit # NULL THEN params.limit[1]
  ELSE IF op = "runs.list" THEN 20 ELSE 100

PageRight(page, M, limit, dir) ==
  LET n == Len(page.data)
      returned == {page.data[i] : i \in 1..n}
  IN /\ n <= limit
     /\ returned \subseteq M
     /\ page.hasMore <=>
          \E x \in M \ returned : n = 0 \/ Beyond(x, page.data[n], dir)
     /\ page.cursor = IF n = 0 THEN NULL ELSE Some(page.data[n])
     /\ M = {} => page = [data |-> <<>>, cursor |-> NULL, hasMore |-> FALSE]

\* Tables of one row more than the default limits, listed with no limit.
ManyRuns == [id \in 1..21 |-> NewRun([workflowName |-> "wfA"])]
ManyEvents == [id \in 1..101 |-> NewEvent(UnknownId, [eventType |-> "workflow_started",
                                                       correlationId |-> NULL])]
NoPagination == [limit |-> NULL, cursor |-> NULL, sortOrder |-> NULL]

DefaultLimitsTruncate ==
  /\ LET page == RunsSelect(ManyRuns,
                             WithFilter(NoPagination, [workflowName |-> NULL, status |-> NULL]))
     IN Len(page.data) = 20 /\ page.hasMore /\ page.cursor = Some(2)
  /\ LET page == EventsSelect(ManyEvents, "runId", UnknownId, NoPagination)
     IN Len(page.data) = 100 /\ page.hasMore /\ page.cursor = Some(100)

RequestedOrder(op, params) ==
  IF params.sortOrder # NULL THEN params.sortOrder[1]
  ELSE IF op = "runs.list" THEN "desc" ELSE "asc"

InOrder(page, cursor, dir) ==
  /\ \A i, j \in 1..Len(page.data) : i < j => Beyond(page.data[j], page.data[i], dir)
  /\ cursor # NULL => \A i \in 1..Len(page.data) : Beyond(page.data[i], cursor[1], dir)

C20_SortOrderHonoured ==
  resp.op \in ListOps =>
    InOrder(resp.page, resp.params.cursor, RequestedOrder(resp.op, resp.params))

\* The same for the two event listings alone.
C20_EventsSortOrderHonoured ==
  resp.op \in ListOps \ {"runs.list"} =>
    InOrder(resp.page, resp.params.cursor, RequestedOrder(resp.op, resp.params))

\* C21: every entity a list operation returns satisfies every supplied filter
\* (runs: workflowName and status; events: runId, or correlationId) and lies
\* beyond the cursor in the direction of the listing: a row that fails one
\* supplied filter, or is on the wrong side of the cursor, is never returned.
Returnable(op, params, id) ==
  /\ params.cursor # NULL => Beyond(id, params.cursor[1], DirectionOf(op, params))
  /\ IF op = "runs.list"
       THEN /\ id \in DOMAIN runs
            /\ Supplied(params.workflowName) =>
                 runs[id].workflowName = params.workflowName[1]
            /\ Supplied(params.status) => runs[id].status = params.status[1]
       ELSE /\ id \in DOMAIN events
            /\ op = "events.list" => events[id].runId = params.runId
            /\ op = "events.listByCorrelationId" =>
                 events[id].correlationId = Some(params.correlationId)

C21_FiltersAnded ==
  resp.op \in ListOps =>
    \A i \in 1..Len(resp.page.data) :
      Returnable(resp.op, resp.params, resp.page.data[i])

\* runs.list with workflowName and status returns a run while another run has
\* the workflowName but not the status.
C21_Witness ==
  /\ resp.op = "runs.list"
  /\ Supplied(resp.params.workflowName)
  /\ Supplied(resp.params.status)
  /\ resp.page.data # <<>>
  /\ \E id \in DOMAIN runs :
       /\ runs[id].workflowName = resp.params.workflowName[1]
       /\ runs[id].status # resp.params.status[1]

\* C22: a queue call publishes to one lane at most, the one its queueName
\* prefix names: a name starting with __wkf_workflow_ adds a message to the
\* workflow queue only and a name starting with __wkf_step_ to the step queue
\* only, whatever the payload and the options; no call adds to both lanes or
\* to the other lane.
OnLane(ms, lane) == Cardinality({m \in DOMAIN ms : ms[m].lane = lane})

C22_OneLaneByPrefix ==
  [][resp'.op = "queue" =>
       LET name == resp'.call.queueName
           toWorkflow == OnLane(msgs', "WORKFLOW_QUEUE") - OnLane(msgs, "WORKFLOW_QUEUE")
           toStep == OnLane(msgs', "STEP_QUEUE") - OnLane(msgs, "STEP_QUEUE")
       IN /\ toWorkflow \in {0, 1} /\ toStep \in {0, 1}
          /\ toWorkflow + toStep <= 1
          /\ Len(msgs') = Len(msgs) + toWorkflow + toStep
          /\ StartsWith(name, WorkflowPrefix) => toStep = 0
          /\ StartsWith(name, StepPrefix) => toWorkflow = 0
          /\ resp'.code = 200 => toWorkflow + toStep = 1]_vars

\* A call on __wkf_workflow_default has published the payload that is no
\* valid payload to the workflow queue, next to a message of the step queue.
C22_Witness ==
  /\ resp.op = "queue"
  /\ resp.code = 200
  /\ StartsWith(resp.call.queueName, WorkflowPrefix)
  /\ resp.call.message = BadJob
  /\ msgs[Len(msgs)].lane = "WORKFLOW_QUEUE"
  /\ OnLane(msgs, "WORKFLOW_QUEUE") = 1
  /\ OnLane(msgs, "STEP_QUEUE") >= 1

\* C23: a message whose payload does not pass the schema is never passed to
\* the processor and never acknowledged: each time the consumer handles it, it
\* asks for its redelivery.
Malformed(m) == msgs[m].body # NULL /\ msgs[m].body[1].message.shape = "malformed"

C23_MalformedFailsClosed ==
  [][\A m \in DOMAIN msgs :
       Malformed(m) =>
         /\ m \in DOMAIN msgs'
         /\ msgs'[m].state \notin {"ack", "done"}
         /\ ~msgs'[m].forwarded
         /\ (msgs[m].state = "delivered" /\ msgs'[m].state # "delivered")
              => msgs'[m].state = "retry"
         /\ \A k \in DOMAIN calls' : calls'[k].msg # m
         /\ m \in DOMAIN proc'.effects => proc'.effects[m] = 0]_vars

\* A call has returned from a batch in which it acknowledged a valid message
\* and asked for the redelivery of a malformed one.
C23_Witness ==
  /\ resp.op = "handleQueueMessage"
  /\ \E j \in DOMAIN resp.batch :
       /\ Malformed(resp.batch[j])
       /\ resp.settled[j] = "retry"
       /\ msgs[resp.batch[j]].state = "pending"
  /\ \E j \in DOMAIN resp.batch : resp.settled[j] = "ack"

\* C24: pause on an existing run succeeds whatever the run's status, sets the
\* status to paused, changes nothing else in the table and returns the updated
\* row; pause fails only when no run has the id.
C24_PauseUnconditional ==
  [][resp'.op = "pause" =>
       IF resp'.id \in DOMAIN runs
         THEN /\ resp'.code = 200
              /\ runs' = [runs EXCEPT ![resp'.id].status = "paused"]
              /\ resp'.row = runs'[resp'.id]
         ELSE resp'.code = 404]_vars

\* A pause has succeeded on a run that had completed with an output.
C24_Witness ==
  /\ resp.op = "pause"
  /\ resp.code = 200
  /\ resp.row.status = "paused"
  /\ resp.row.completedAt # NULL
  /\ resp.row.output # NULL
  /\ runs[resp.id] = resp.row

\* C25: get, update, cancel, pause and resume called with an id that no run
\* has fail with 404 and change nothing in the store; cancel on an existing
\* run sets its status to cancelled and sets its completedAt.
C25_NotFoundChangesNothing ==
  [][/\ (resp'.op \in {"get", "update", "cancel", "pause", "resume"}
          /\ resp'.id \notin DOMAIN runs)
         => /\ resp'.code = 404
            /\ resp'.row = NULL
            /\ runs' = runs
            /\ UNCHANGED <<eventVars, streamVars>>
     /\ (resp'.op = "cancel" /\ resp'.id \in DOMAIN runs)
         => /\ resp'.code = 200
            /\ DOMAIN runs' = DOMAIN runs
            /\ runs'[resp'.id].status = "cancelled"
            /\ runs'[resp'.id].completedAt = Some(clock)
            /\ resp'.row = runs'[resp'.id]]_vars

\* A cancel of an id that no run has, refused while the table holds a run.
C25_Witness ==
  /\ resp.op = "cancel"
  /\ resp.code = 404
  /\ resp.id \notin DOMAIN runs
  /\ runs # <<>>

\* C26: a run is created with status pending and with no startedAt, completedAt
\* or output, and no operation removes a run: after runs.create has returned a
\* run, runs.get of its id succeeds in every later state.
C26_CreatedPendingNeverRemoved ==
  [][/\ (resp'.op = "create" /\ resp'.code = 200)
         => /\ resp'.id \notin DOMAIN runs
            /\ resp'.id \in DOMAIN runs'
            /\ resp'.row = runs'[resp'.id]
            /\ resp'.row.status = "pending"
            /\ resp'.row.startedAt = NULL
            /\ resp'.row.completedAt = NULL
            /\ resp'.row.output = NULL
            /\ resp'.row.workflowName = resp'.data.workflowName
     /\ DOMAIN runs \subseteq DOMAIN runs'
     /\ (resp'.op = "get" /\ resp'.id \in DOMAIN runs)
         => /\ resp'.code = 200
            /\ resp'.row = runs[resp'.id]]_vars

\* A get has returned a run that was cancelled after a second create had
\* collided with its id.
C26_Witness ==
  /\ resp.op = "get"
  /\ resp.code = 200
  /\ resp.row.status = "cancelled"
  /\ gen["w1"].lastRandom > 0 \/ gen["w1"].lastTime > 0
  /\ gen["w2"].lastRandom > 0 \/ gen["w2"].lastTime > 0

\* C27: resume is decided by the status of the row at the instant of its one
\* UPDATE, under every interleaving with the other calls: it succeeds, and
\* sets the status to running, exactly when the row is paused at that instant
\* (so also when it races with cancel or pause); of two resume calls on a
\* paused run with no other call between them, the first succeeds and the
\* second fails with 404.
C27_ResumeRace ==
  [][resp'.op = "resume" =>
       /\ resp'.code = 200 <=>
            (resp'.id \in DOMAIN runs /\ runs[resp'.id].status = "paused")
       /\ resp'.code = 200 => runs'[resp'.id].status = "running"
       /\ resp'.code # 200 => resp'.code = 404 /\ runs' = runs
       /\ (resp.op = "resume" /\ resp.code = 200 /\ resp.id = resp'.id)
            => resp'.code = 404]_vars

\* A resume has failed on a run that an earlier resume had set running (the
\* run never had a startedAt), while an update of the run is in flight.
C27_Witness ==
  /\ resp.op = "resume"
  /\ resp.code = 404
  /\ resp.id \in DOMAIN runs
  /\ runs[resp.id].status = "running"
  /\ runs[resp.id].startedAt = NULL
  /\ \E p \in Procs : upd[p].pc = "selected"

\* C28: readFromStream reads the metadata once, at its start, and then ends
\* without an error whatever writes and closes run beside it: it yields the
\* chunks at the indices startIndex, startIndex + 1, ... and none at an index
\* >= the chunkCount it read; it stops at the first chunk object that is
\* missing, yields nothing when startIndex >= chunkCount and nothing when
\* there is no metadata object.
Reading(p) == sproc[p].pc = "reading"

ReadStepOk(p) ==
  /\ (~Reading(p) /\ Reading(p)') =>
       /\ sproc'[p].name \in DOMAIN meta
       /\ sproc'[p].chunkCount = meta[sproc'[p].name].chunkCount
       /\ sproc'[p].index = sproc'[p].startIndex
       /\ sproc'[p].out = <<>>
  /\ (Reading(p) /\ Reading(p)') =>
       /\ sproc'[p].chunkCount = sproc[p].chunkCount
       /\ sproc'[p].name = sproc[p].name
       /\ sproc'[p].startIndex = sproc[p].startIndex
       /\ sproc'[p] # sproc[p] =>
            /\ sproc[p].index < sproc[p].chunkCount
            /\ <<sproc[p].name, sproc[p].index>> \in DOMAIN chunks
            /\ sproc'[p].out = Append(sproc[p].out, chunks[<<sproc[p].name, sproc[p].index>>])
            /\ sproc'[p].index = sproc[p].index + 1
  /\ (Reading(p) /\ ~Reading(p)') =>
       /\ resp' = [op |-> "readFromStream", name |-> sproc[p].name,
                    startIndex |-> sproc[p].startIndex, out |-> sproc[p].out,
                    code |-> 200]
       /\ \/ sproc[p].index >= sproc[p].chunkCount
          \/ <<sproc[p].name, sproc[p].index>> \notin DOMAIN chunks
       /\ sproc[p].startIndex >= sproc[p].chunkCount => sproc[p].out = <<>>

ReadInv(p) ==
  Reading(p) =>
    /\ sproc[p].index = sproc[p].startIndex + Len(sproc[p].out)
    /\ \A k \in 1..Len(sproc[p].out) : sproc[p].startIndex + k - 1 < sproc[p].chunkCount

C28_ReadTerminates ==
  /\ [][/\ \A p \in Procs : ReadStepOk(p)
        /\ resp'.op = "readFromStream" =>
             /\ resp'.code = 200
             /\ \/ \E p \in Procs : Reading(p) /\ ~Reading(p)'
                \/ /\ resp'.name \notin DOMAIN meta
                   /\ resp'.out = <<>>]_vars
  /\ [](\A p \in Procs : ReadInv(p))
  /\ \A p \in Procs : Reading(p) ~> ~Reading(p)

\* A read from index 1 has ended after one chunk, at a chunk object that is
\* missing, on a stream of three chunks.
C28_Witness ==
  /\ resp.op = "readFromStream"
  /\ resp.startIndex = 1
  /\ Len(resp.out) = 1
  /\ "s1" \in DOMAIN meta
  /\ meta["s1"].chunkCount = 3
  /\ <<"s1", 1>> \in DOMAIN chunks
  /\ <<"s1", 2>> \notin DOMAIN chunks

\* C29: closeStream with no other call in flight sets closed to true, keeps
\* the chunkCount (0 when the stream had no metadata), changes no chunk object
\* and no other stream's metadata; a read from any index yields after it what
\* it yielded before it.
C29_CloseKeepsChunks ==
  [][resp'.op = "closeStream" =>
       LET name == resp'.name
       IN /\ resp'.code = 200
          /\ meta' = Put(meta, name, [chunkCount |-> ChunkCountOf(name), closed |-> TRUE])
          /\ chunks' = chunks
          /\ \A startIndex \in 0..(MaxChunks + 1) :
               ReadAlone(meta', chunks', name, startIndex)
                 = ReadAlone(meta, chunks, name, startIndex)]_vars

\* A stream of two chunks has been closed, and a stream without metadata.
C29_Witness ==
  /\ resp.op = "closeStream"
  /\ meta[resp.name] = [chunkCount |-> 2, closed |-> TRUE]
  /\ Len(ReadAlone(meta, chunks, resp.name, 1)) = 1
  /\ \E other \in DOMAIN meta : meta[other] = [chunkCount |-> 0, closed |-> TRUE]

\* C30: when the writes and closes of each stream are issued one after
\* another, then under every interleaving with reads and with calls on the
\* other stream the i-th completed write of a stream has its payload stored at
\* index i - 1, the chunkCount of the stream is the number of its completed
\* writes, and no stored chunk is ever overwritten or removed.
WritesInOrder(name) ==
  /\ (IF name \in DOMAIN meta THEN meta[name].chunkCount ELSE 0) = Len(wlog[name])
  /\ \A i \in 1..Len(wlog[name]) :
       /\ <<name, i - 1>> \in DOMAIN chunks
       /\ chunks[<<name, i - 1>>] = ChunkData(wlog[name][i])

C30_SerialWritesInOrder ==
  /\ [](\A name \in StreamNames : WritesInOrder(name))
  /\ [][\A k \in DOMAIN chunks : k \in DOMAIN chunks' /\ chunks'[k] = chunks[k]]_vars

\* Two writes of s1 and one of s2 are complete while a read of s1 that began
\* after the first write is in flight.
C30_Witness ==
  /\ Len(wlog["s1"]) = 2
  /\ Len(wlog["s2"]) = 1
  /\ chunks[<<"s1", 1>>] # chunks[<<"s1", 0>>]
  /\ \E p \in Procs :
       /\ sproc[p].pc = "reading"
       /\ sproc[p].name = "s1"
       /\ sproc[p].chunkCount = 1

\* C31: two concurrent writeToStream calls on one stream can read the same
\* chunkCount n: both then write their chunk at index n and both set
\* chunkCount to n + 1.  A write that completes sets chunkCount to its own
\* index + 1 whatever the other call has stored meanwhile, and stores no
\* further chunk: after both calls one payload is lost and chunkCount is
\* n + 1.
Writing(p) == sproc[p].pc \in {"putChunk", "putMeta"}

C31_WriteRaceLosesChunk ==
  [][\A p \in Procs :
       (sproc[p].pc = "putMeta" /\ sproc'[p].pc = "idle") =>
         LET name == sproc[p].name
             n == sproc[p].chunkIndex
         IN /\ meta'[name].chunkCount = n + 1
            /\ Len(wlog'[name]) = Len(wlog[name]) + 1
            /\ chunks' = chunks
            /\ \A q \in Procs \ {p} :
                 (Writing(q) /\ sproc[q].name = name /\ sproc[q].chunkIndex = n)
                   => /\ sproc'[q] = sproc[q]
                      /\ meta'[name].chunkCount = sproc'[q].chunkIndex + 1]_vars

\* Both calls read chunkCount 0 of a stream without metadata; the first has
\* completed, the second has put its chunk over the first one's at index 0 and
\* is about to set chunkCount to 1 again.
C31_Witness ==
  /\ Len(wlog["s1"]) = 1
  /\ meta["s1"] = [chunkCount |-> 1, closed |-> FALSE]
  /\ \E q \in Procs :
       /\ sproc[q].pc = "putMeta"
       /\ sproc[q].name = "s1"
       /\ sproc[q].chunkIndex = 0
       /\ chunks[<<"s1", 0>>] = sproc[q].data
       /\ chunks[<<"s1", 0>>] # ChunkData(wlog["s1"][1])
  /\ DOMAIN chunks = {<<"s1", 0>>}

\* The status a run or step event records.
RecordedStatus(eventType) ==
  CASE eventType \in {"workflow_started", "step_started"} -> "running"
    [] eventType \in {"workflow_completed", "step_completed"} -> "completed"
    [] OTHER -> "failed"

RunEvents == {"workflow_started", "workflow_completed", "workflow_failed"}
StepEvents == {"step_started", "step_completed", "step_failed"}

\* C32: in the run processor every event is inserted only after the status
\* update it records: a workflow_started, workflow_completed or
\* workflow_failed event exists only if the run row was already updated to
\* running, completed or failed, and a step_started, step_completed or
\* step_failed event only if the step row exists and was already updated
\* accordingly, wherever the processor crashes.
C32_EventLogNeverAhead ==
  \A e \in DOMAIN events :
    LET ev == events[e]
    IN /\ ev.eventType \in RunEvents =>
            <<ev.runId, RecordedStatus(ev.eventType)>> \in hist.runs
       /\ ev.eventType \in StepEvents =>
            /\ ev.correlationId # NULL
            /\ ev.correlationId[1] \in DOMAIN steps
            /\ steps[ev.correlationId[1]].runId = ev.runId
            /\ <<ev.correlationId[1], RecordedStatus(ev.eventType)>> \in hist.steps

\* A processor has crashed after the run was updated to completed and before
\* the workflow_completed event: the log holds the step events and is behind.
C32_Witness ==
  \E d \in DemoProcs :
    /\ demo[d].pc = "crashed"
    /\ <<demo[d].runId, "completed">> \in hist.runs
    /\ \A e \in DOMAIN events : events[e].eventType # "workflow_completed"
    /\ \E e \in DOMAIN events : events[e].eventType = "step_completed"
    /\ \E e \in DOMAIN events : events[e].eventType = "workflow_started"

\* C33: once a stream's metadata has closed = true it keeps closed = true in
\* every later state, whatever writeToStream or closeStream calls follow.
C33_ClosedStaysClosed ==
  [][\A name \in DOMAIN meta :
       meta[name].closed => name \in DOMAIN meta' /\ meta'[name].closed]_vars

\* C34: a stream's chunkCount never decreases: with a single writer and a
\* concurrent closer, each metadata write stores a chunkCount >= the one
\* stored before, so a chunk that was once readable stays readable.
C34_ChunkCountNeverDecreases ==
  [][\A name \in DOMAIN meta :
       /\ name \in DOMAIN meta'
       /\ meta'[name].chunkCount >= meta[name].chunkCount
       /\ \A index \in 0..(meta[name].chunkCount - 1) :
            ReadAlone(meta, chunks, name, index) # <<>>
              => ReadAlone(meta', chunks', name, index) # <<>>]_vars

\* C35: every page that reports hasMore = true has non-empty data and a
\* non-null cursor, for every limit a caller can pass (0 included), so a
\* traversal that follows the cursors while hasMore is true always advances.
C35_HasMorePageAdvances ==
  (resp.op \in ListOps \cup {"handleListRuns"} /\ resp.page.hasMore)
    => resp.page.data # <<>> /\ resp.page.cursor # NULL

\* The direction a traversal is served in: runs newest first, events as asked.
ServedOrder ==
  IF trav.kind = "runs" THEN "desc"
  ELSE IF trav.sortOrder = NULL THEN "asc" ELSE trav.sortOrder[1]

\* C36: a cursor-chained traversal is stable under concurrent creates: the
\* ids returned across its pages are strictly monotone in the sort direction,
\* so none is returned twice, and every entity that existed when the
\* traversal began has been returned, once, when it ends.
C36_TraversalStable ==
  trav.kind # "none" =>
    /\ \A i \in DOMAIN trav.got, j \in DOMAIN trav.got :
         i < j => IF ServedOrder = "desc" THEN trav.got[i] > trav.got[j]
                                         ELSE trav.got[i] < trav.got[j]
    /\ ~trav.hasMore => trav.first \subseteq {trav.got[i] : i \in DOMAIN trav.got}

\* A traversal of the runs, one per page, has ended; a run was created after
\* its first page with an id between the two it returned, and is not among
\* them.
C36_Witness ==
  /\ trav.kind = "runs"
  /\ ~trav.hasMore
  /\ trav.limit = Some(1)
  /\ Len(trav.got) = 2
  /\ Cardinality(trav.first) = 2
  /\ \E id \in DOMAIN runs \ trav.first : trav.got[2] < id /\ id < trav.got[1]

\* C37: in one handleQueueMessage call every message of the batch receives
\* exactly one of ack or retry, the messages are handled in batch order, and a
\* message is acknowledged only after the processor forward for that same
\* message has completed successfully.
Settled == {"ack", "retry"}

C37_EachMessageSettledOnce ==
  /\ [][(hq.pc = "running" /\ hq'.pc = "running") =>
          IF hq'.i # hq.i
            THEN LET m == hq.batch[hq.i]
                 IN /\ hq'.i = hq.i + 1
                    /\ msgs[m].state = "delivered"
                    /\ msgs'[m].state \in Settled
                    /\ \A o \in DOMAIN msgs \ {m} : msgs'[o] = msgs[o]
                    /\ msgs'[m].state = "ack" =>
                         /\ Len(calls') = Len(calls) + 1
                         /\ calls'[Len(calls')].msg = m
                         /\ calls'[Len(calls')].accepted
            ELSE \A j \in DOMAIN hq.batch :
                   msgs'[hq.batch[j]].state = msgs[hq.batch[j]].state]_vars
  /\ [](hq.pc = "running" =>
          \A j \in DOMAIN hq.batch :
            IF j < hq.i THEN msgs[hq.batch[j]].state \in Settled
                        ELSE msgs[hq.batch[j]].state = "delivered")
  /\ [](resp.op = "handleQueueMessage" =>
          \A j \in DOMAIN resp.settled : resp.settled[j] \in Settled)

\* A call has returned on a batch of two: the first message was rejected by
\* the processor and is to be retried, the second is acknowledged.
C37_Witness ==
  /\ resp.op = "handleQueueMessage"
  /\ resp.code = 200
  /\ resp.settled = <<"retry", "ack">>

\* C38: in every reachable state a run's completedAt is set if and only if
\* its status is one of completed, failed or cancelled.
C38_CompletedAtIffTerminal ==
  \A id \in DOMAIN runs : runs[id].completedAt # NULL <=> runs[id].status \in Terminal

\* C39: once runs.cancel has succeeded for a run, the run's status stays
\* cancelled in every later state, whatever update, pause or resume calls
\* follow, in particular when the run processor that was executing the run
\* finishes after the cancel and writes its own final status.
C39_CancelledStaysCancelled ==
  [][\A id \in DOMAIN runs :
       runs[id].status = "cancelled" => runs'[id].status = "cancelled"]_vars

\* C40: each stored event's runId is the id of a run that exists in the
\* store; events.create with a runId that names no run stores no event.
C40_EventsReferToRuns ==
  \A e \in DOMAIN events : events[e].runId \in DOMAIN runs

====
